---- MODULE Spec2Model ----
(***************************************************************************)
(* Decision engine of the 15-minute up/down market bot: order-book sweep   *)
(* arithmetic (engine.js), the arbitrage straddle mode and the certainty   *)
(* mode.                                                                   *)
(*                                                                         *)
(* Numbers are exact integers on fixed grids:                              *)
(*   price   : 1 unit = 0.001 $          (PriceScale units per dollar)     *)
(*   size    : 1 unit = 1/2 share        (SizeScale units per share)       *)
(*   money   : 1 unit = 1/MoneyScale $                                     *)
(*   time    : milliseconds                                                *)
(* The code's float tolerances 1e-9 (shares, dollars) and 1e-12 are below  *)
(* one grid unit and are written out where the code applies them.          *)
(***************************************************************************)
EXTENDS Integers, Sequences, FiniteSets, TLC

PriceScale == 1000
SizeScale == 2
MoneyScale == 200000000

\* money units of one (size unit x price unit x 1/10000), the grain of a bps-fee cost
BpsCostUnit == MoneyScale \div (PriceScale * SizeScale * 10000)
\* money units of one (price unit x 1/10000) per whole share
PerShareUnit == MoneyScale \div (PriceScale * 10000)

null == [isNull |-> TRUE]

Min(a, b) == IF a <= b THEN a ELSE b
Max(a, b) == IF a >= b THEN a ELSE b

(***************************************************************************)
(* BookMath, engine.js                                                     *)
(***************************************************************************)

\* (levels || []).reduce((acc, l) => acc + l.size, 0), in size units
RECURSIVE sumSizes(_)
sumSizes(levels) ==
    IF Len(levels) = 0 THEN 0
    ELSE Head(levels).size + sumSizes(Tail(levels))

clampInt(n, lo, hi) == Max(lo, Min(hi, n))

\* a sweep that overwrites the running cost at every level instead of adding to it
RECURSIVE BuySweep_assign(_, _, _)
BuySweep_assign(asks, i, st) ==
    IF i > Len(asks) \/ ~(st.remaining > 0) THEN st
    ELSE LET level == asks[i]
             take == Min(st.remaining, level.size)
         IN IF take <= 0 THEN BuySweep_assign(asks, i + 1, st)
            ELSE BuySweep_assign(asks, i + 1,
                                 [remaining |-> st.remaining - take,
                                  cost |-> take * level.price,
                                  maxPrice |-> level.price])

\* the for-loop of costToBuySharesFromAsks: state [remaining, cost, maxPrice]
RECURSIVE BuySweep(_, _, _)
BuySweep(asks, i, st) ==
    IF i > Len(asks) \/ ~(st.remaining > 0) THEN st
    ELSE LET level == asks[i]
             take == Min(st.remaining, level.size)
         IN IF take <= 0 THEN BuySweep(asks, i + 1, st)
            ELSE BuySweep(asks, i + 1,
                          [remaining |-> st.remaining - take,
                           cost |-> st.cost + take * level.price,
                           maxPrice |-> level.price])

\* a sweep that reports whatever it could take as a fill
costToBuySharesFromAsks_partial(asks, shares, feeBps) ==
    IF Len(asks) = 0 THEN null
    ELSE IF ~(shares > 0) THEN null
    ELSE LET st == BuySweep(asks, 1, [remaining |-> shares * SizeScale, cost |-> 0, maxPrice |-> 0])
         IN [cost |-> st.cost * (10000 + feeBps) * BpsCostUnit,
             maxPrice |-> st.maxPrice,
             taken |-> shares * SizeScale - st.remaining]

\* cost in money units, fee-inclusive: cost * (1 + feeBps / 10000)
costToBuySharesFromAsks(asks, shares, feeBps) ==
    IF Len(asks) = 0 THEN null
    ELSE IF ~(shares > 0) THEN null
    ELSE LET st == BuySweep(asks, 1, [remaining |-> shares * SizeScale, cost |-> 0, maxPrice |-> 0])
         IN IF st.remaining > 0 THEN null
            ELSE [cost |-> st.cost * (10000 + feeBps) * BpsCostUnit,
                  maxPrice |-> st.maxPrice,
                  taken |-> shares * SizeScale - st.remaining]

\* the while-loop of maxSharesForBudget
RECURSIVE BudgetSearch(_, _, _, _, _, _)
BudgetSearch(asks, feeBps, maxUsdc, lo, hi, bestFill) ==
    IF lo > hi THEN bestFill
    ELSE LET mid == (lo + hi) \div 2
             fill == costToBuySharesFromAsks(asks, mid, feeBps)
         IN IF fill = null THEN BudgetSearch(asks, feeBps, maxUsdc, lo, mid - 1, bestFill)
            ELSE IF fill.cost <= maxUsdc
                 THEN BudgetSearch(asks, feeBps, maxUsdc, mid + 1, hi,
                                   [shares |-> mid, cost |-> fill.cost, maxPrice |-> fill.maxPrice])
                 ELSE BudgetSearch(asks, feeBps, maxUsdc, lo, mid - 1, bestFill)

\* a search whose upper bound forgets the last affordable share
maxSharesForBudget_offByOne(asks, feeBps, maxUsdc, minShares) ==
    IF Len(asks) = 0 THEN null
    ELSE LET best == asks[1].price
             totalSize == sumSizes(asks) \div SizeScale
             approxPerShare == best * (10000 + feeBps) * PerShareUnit
             budgetBound == IF approxPerShare > 0 THEN maxUsdc \div approxPerShare ELSE 0
             hi == clampInt(Min(totalSize, budgetBound), 0, 1000000000) - 1
         IN IF ~(best > 0) \/ ~(maxUsdc > 0) THEN null
            ELSE IF totalSize < minShares THEN null
            ELSE IF hi < minShares THEN null
            ELSE BudgetSearch(asks, feeBps, maxUsdc, minShares, hi, null)

maxSharesForBudget(asks, feeBps, maxUsdc, minShares) ==
    IF Len(asks) = 0 THEN null
    ELSE LET best == asks[1].price
             totalSize == sumSizes(asks) \div SizeScale
             approxPerShare == best * (10000 + feeBps) * PerShareUnit
             budgetBound == IF approxPerShare > 0 THEN maxUsdc \div approxPerShare ELSE 0
             hi == clampInt(Min(totalSize, budgetBound), 0, 1000000000)
         IN IF ~(best > 0) \/ ~(maxUsdc > 0) THEN null
            ELSE IF totalSize < minShares THEN null
            ELSE IF hi < minShares THEN null
            ELSE BudgetSearch(asks, feeBps, maxUsdc, minShares, hi, null)

\* applyTakerFeeOnSell: proceeds * (1 - bps / 10000), in money units
applyTakerFeeOnSell(gross, feeBps) == gross * (10000 - feeBps) * BpsCostUnit

\* the for-loop of proceedsFromSellingSharesToBids: state [remaining, gross, minFilled]
RECURSIVE SellSweep(_, _, _, _)
SellSweep(bids, i, minPrice01, st) ==
    IF i > Len(bids) \/ ~(st.remaining > 0) THEN st
    ELSE LET level == bids[i]
             take == Min(st.remaining, level.size)
         IN IF ~(level.price >= minPrice01) THEN st
            ELSE IF take <= 0 THEN SellSweep(bids, i + 1, minPrice01, st)
            ELSE SellSweep(bids, i + 1, minPrice01,
                           [remaining |-> st.remaining - take,
                            gross |-> st.gross + take * level.price,
                            minFilled |-> level.price])

proceedsFromSellingSharesToBids(bids, shares, feeBps, minPrice01) ==
    IF Len(bids) = 0 THEN null
    ELSE IF ~(shares > 0) THEN null
    ELSE LET st == SellSweep(bids, 1, minPrice01,
                             [remaining |-> shares * SizeScale, gross |-> 0, minFilled |-> 0])
         IN IF st.remaining > 0 THEN null
            ELSE [gross |-> st.gross,
                  proceeds |-> applyTakerFeeOnSell(st.gross, feeBps),
                  minFilledPrice |-> st.minFilled,
                  taken |-> shares * SizeScale - st.remaining]

(***************************************************************************)
(* Certainty mode: constants and price-dependent fee arithmetic.           *)
(* A rational price is a record [n, d] meaning n/d price units; a cost is  *)
(* a mixed number [q, r, d] meaning q + r/d money units.                   *)
(***************************************************************************)

ENTRY_TIME_WINDOW_SEC == 600
ENTRY_PRICE_MIN == 800
ENTRY_PRICE_MAX == 820
REENTRY_PRICE_MIN == 750
REENTRY_PRICE_MAX == 770
STOP_LOSS_PRICE == 750
TAKE_PROFIT_MIN == 960
TAKE_PROFIT_MAX == 990
STOP_LOSS_BUFFER == 15
TAKE_PROFIT_BUFFER == 10
MAX_SPREAD == 20
MIN_SHARES == 1
ORDER_GAS_USDC == 0
COOLDOWN_MS == 1000
CONFIRM_TICKS == 2
PRICE_EPS == 1
\* POLYMARKET_FEE_RATE = 0.02, in percent
POLYMARKET_FEE_RATE_PCT == 2

\* money units of one (size unit x price unit)
NotionalUnit == MoneyScale \div (PriceScale * SizeScale)
\* money units of one (size unit x price unit x price unit x 1/100)
FeeUnit == MoneyScale \div (PriceScale * PriceScale * SizeScale * 100)
\* money units of one (price unit x price unit x 1/100) per whole share
RealPerShareUnit == MoneyScale \div (PriceScale * PriceScale * 100)
\* 1 / (1e-9 dollars in money units)
CostTolInv == 1000000000 \div MoneyScale

Rat(n, d) == [n |-> n, d |-> d]
NoLimit == [none |-> TRUE]

\* a <= b for mixed numbers
MixedLeq(a, b) == a.q < b.q \/ (a.q = b.q /\ a.r * b.d <= b.r * a.d)
MixedOfInt(x) == [q |-> x, r |-> 0, d |-> 1]

\* calcPolymarketFee(notional, avgPrice) with avgPrice = notional / filled:
\* notional * (1 - avg) * rate, as a numerator over `filled`
FeeNumerator(notional, filled) ==
    notional * (PriceScale * filled - notional) * POLYMARKET_FEE_RATE_PCT * FeeUnit

\* notional + fee
RealCost(notional, filled) ==
    [q |-> notional * NotionalUnit + (FeeNumerator(notional, filled) \div filled),
     r |-> FeeNumerator(notional, filled) % filled,
     d |-> filled]

\* gross - fee
RealProceeds(gross, filled) ==
    LET fq == FeeNumerator(gross, filled) \div filled
        fr == FeeNumerator(gross, filled) % filled
    IN IF fr = 0 THEN [q |-> gross * NotionalUnit - fq, r |-> 0, d |-> filled]
       ELSE [q |-> gross * NotionalUnit - fq - 1, r |-> filled - fr, d |-> filled]

\* the for-loop of costToBuySharesFromAsksReal: state [remaining, notional, maxFilled, filledShares]
RECURSIVE BuySweepReal(_, _, _, _)
BuySweepReal(asks, i, maxPrice01, st) ==
    IF i > Len(asks) \/ ~(st.remaining > 0) THEN st
    ELSE LET p == asks[i].price
             sz == asks[i].size
             take == Min(st.remaining, sz)
         IN IF ~(p > 0) \/ ~(sz > 0) THEN BuySweepReal(asks, i + 1, maxPrice01, st)
            ELSE IF maxPrice01 # NoLimit /\ p * maxPrice01.d > maxPrice01.n + PRICE_EPS * maxPrice01.d THEN st
            ELSE BuySweepReal(asks, i + 1, maxPrice01,
                              [remaining |-> st.remaining - take,
                               notional |-> st.notional + take * p,
                               maxFilled |-> p,
                               filledShares |-> st.filledShares + take])

costToBuySharesFromAsksReal(asks, shares, maxPrice01) ==
    IF Len(asks) = 0 THEN null
    ELSE IF ~(shares > 0) THEN null
    ELSE LET st == BuySweepReal(asks, 1, maxPrice01,
                                [remaining |-> shares * SizeScale, notional |-> 0,
                                 maxFilled |-> 0, filledShares |-> 0])
         IN IF st.remaining > 0 THEN null
            ELSE [shares |-> shares,
                  notional |-> st.notional,
                  cost |-> RealCost(st.notional, st.filledShares),
                  maxPrice |-> st.maxFilled,
                  avgPrice |-> Rat(st.notional, st.filledShares)]

\* the while-loop of maxSharesForBudgetReal; fill.cost <= budgetUsdc + 1e-9
RECURSIVE BudgetSearchReal(_, _, _, _, _, _)
BudgetSearchReal(asks, budgetUsdc, maxPrice01, lo, hi, bestFill) ==
    IF lo > hi THEN bestFill
    ELSE LET mid == (lo + hi) \div 2
             fill == costToBuySharesFromAsksReal(asks, mid, maxPrice01)
         IN IF fill = null THEN BudgetSearchReal(asks, budgetUsdc, maxPrice01, lo, mid - 1, bestFill)
            ELSE IF fill.cost.q < budgetUsdc
                    \/ (fill.cost.q = budgetUsdc /\ fill.cost.r * CostTolInv <= fill.cost.d)
                 THEN BudgetSearchReal(asks, budgetUsdc, maxPrice01, mid + 1, hi, fill)
                 ELSE BudgetSearchReal(asks, budgetUsdc, maxPrice01, lo, mid - 1, bestFill)

maxSharesForBudgetReal(asks, budgetUsdc, maxPrice01, minShares) ==
    IF Len(asks) = 0 THEN null
    ELSE IF ~(budgetUsdc > 0) THEN null
    ELSE LET totalSize == sumSizes(asks) \div SizeScale
             best == asks[1].price
             approxPerShare == best * (100 * PriceScale + POLYMARKET_FEE_RATE_PCT * (PriceScale - best))
                               * RealPerShareUnit
             budgetBound == IF approxPerShare > 0 THEN budgetUsdc \div approxPerShare ELSE 0
             hi == Max(0, Min(totalSize, budgetBound))
         IN IF totalSize < minShares THEN null
            ELSE IF ~(best > 0) THEN null
            ELSE IF maxPrice01 # NoLimit /\ best * maxPrice01.d > maxPrice01.n + PRICE_EPS * maxPrice01.d THEN null
            ELSE IF hi < minShares THEN null
            ELSE BudgetSearchReal(asks, budgetUsdc, maxPrice01, minShares, hi, null)

\* the for-loop of proceedsFromSellingSharesToBidsReal
RECURSIVE SellSweepReal(_, _, _, _)
SellSweepReal(bids, i, minPrice01, st) ==
    IF i > Len(bids) \/ ~(st.remaining > 0) THEN st
    ELSE LET p == bids[i].price
             sz == bids[i].size
             take == Min(st.remaining, sz)
         IN IF ~(sz > 0) THEN SellSweepReal(bids, i + 1, minPrice01, st)
            ELSE IF minPrice01 # NoLimit /\ p * minPrice01.d < minPrice01.n - PRICE_EPS * minPrice01.d THEN st
            ELSE SellSweepReal(bids, i + 1, minPrice01,
                               [remaining |-> st.remaining - take,
                                gross |-> st.gross + take * p,
                                minFilled |-> p,
                                filledShares |-> st.filledShares + take])

proceedsFromSellingSharesToBidsReal(bids, shares, minPrice01) ==
    IF Len(bids) = 0 THEN null
    ELSE IF ~(shares > 0) THEN null
    ELSE LET st == SellSweepReal(bids, 1, minPrice01,
                                 [remaining |-> shares * SizeScale, gross |-> 0,
                                  minFilled |-> 0, filledShares |-> 0])
         IN IF st.remaining > 0 THEN null
            ELSE [shares |-> shares,
                  gross |-> st.gross,
                  proceeds |-> RealProceeds(st.gross, st.filledShares),
                  minFilledPrice |-> st.minFilled,
                  avgPrice |-> Rat(st.gross, st.filledShares)]

\* highest bid p with targetPrice - maxPriceBelow - eps <= p <= targetPrice + eps; 0 stands for null
RECURSIVE BestSellScan(_, _, _, _, _)
BestSellScan(bids, i, targetPrice, maxPriceBelow, bestPrice) ==
    IF i > Len(bids) THEN bestPrice
    ELSE LET p == bids[i].price
             sz == bids[i].size
         IN IF ~(sz > 0) THEN BestSellScan(bids, i + 1, targetPrice, maxPriceBelow, bestPrice)
            ELSE IF p <= targetPrice + PRICE_EPS /\ p >= (targetPrice - maxPriceBelow) - PRICE_EPS
                    /\ (bestPrice = 0 \/ p > bestPrice)
                 THEN BestSellScan(bids, i + 1, targetPrice, maxPriceBelow, p)
                 ELSE BestSellScan(bids, i + 1, targetPrice, maxPriceBelow, bestPrice)

findBestAvailableSellPrice(bids, targetPrice, maxPriceBelow) ==
    IF Len(bids) = 0 THEN 0
    ELSE BestSellScan(bids, 1, targetPrice, maxPriceBelow, 0)

(***************************************************************************)
(* Arbitrage mode (straddle)                                               *)
(***************************************************************************)

\* Math.max(STRADDLE_MIN_USDC, STRADDLE_MAX_USDC_RAW) of the defaults 5 and 10
STRADDLE_MAX_USDC == Max(5, 10) * MoneyScale
\* STRADDLE_MIN_PROFIT_CENTS = 0.25, in hundredths of a cent
STRADDLE_MIN_PROFIT_CENTS_X100 == 25
STRADDLE_COOLDOWN_MS == 2500
STRADDLE_MIN_SHARES == 1

\* money units of 1/100 cent
CentX100Unit == MoneyScale \div 10000

\* the while-loop of computeEqualProfitStraddle; profitEach = mid - totalCost
RECURSIVE StraddleSearch(_, _, _, _, _, _, _, _, _)
StraddleSearch(upAsks, downAsks, upFee, downFee, maxUsdc, minProfitCentsX100, lo, hi, best) ==
    IF lo > hi THEN best
    ELSE LET mid == (lo + hi) \div 2
             upFill == costToBuySharesFromAsks(upAsks, mid, upFee)
             downFill == costToBuySharesFromAsks(downAsks, mid, downFee)
         IN IF upFill = null \/ downFill = null
            THEN StraddleSearch(upAsks, downAsks, upFee, downFee, maxUsdc, minProfitCentsX100, lo, mid - 1, best)
            ELSE LET totalCost == upFill.cost + downFill.cost
                     profitEach == mid * MoneyScale - totalCost
                     ok == totalCost <= maxUsdc /\ profitEach >= minProfitCentsX100 * CentX100Unit
                 IN IF ok
                    THEN StraddleSearch(upAsks, downAsks, upFee, downFee, maxUsdc, minProfitCentsX100,
                                        mid + 1, hi,
                                        [shares |-> mid, cost |-> totalCost, profitEach |-> profitEach,
                                         upCost |-> upFill.cost, downCost |-> downFill.cost,
                                         upMaxPrice |-> upFill.maxPrice, downMaxPrice |-> downFill.maxPrice])
                    ELSE StraddleSearch(upAsks, downAsks, upFee, downFee, maxUsdc, minProfitCentsX100,
                                        lo, mid - 1, best)

computeEqualProfitStraddle(upAsks, downAsks, upFee, downFee, maxUsdc, minShares, minProfitCentsX100) ==
    LET maxFillableShares == Min(sumSizes(upAsks), sumSizes(downAsks)) \div SizeScale
        upBest == IF Len(upAsks) > 0 THEN upAsks[1].price ELSE 0
        downBest == IF Len(downAsks) > 0 THEN downAsks[1].price ELSE 0
        approxPerShare == (upBest * (10000 + upFee) + downBest * (10000 + downFee)) * PerShareUnit
        budgetBound == IF maxUsdc > 0 /\ approxPerShare > 0 THEN maxUsdc \div approxPerShare ELSE 0
        hi == clampInt(Min(maxFillableShares, budgetBound), 0, 1000000000)
    IN IF maxFillableShares < minShares THEN null
       ELSE IF ~(upBest > 0 /\ downBest > 0) THEN null
       ELSE IF hi < minShares THEN null
       ELSE StraddleSearch(upAsks, downAsks, upFee, downFee, maxUsdc, minProfitCentsX100, minShares, hi, null)

(***************************************************************************)
(* State                                                                   *)
(***************************************************************************)

VARIABLES
    inp,            \* arguments of one call of a BookMath function
    out,            \* that call's return value
    now,            \* Date.now(), ms since the start of a 15-minute interval (the epoch offset is dropped)
    cfg,            \* process configuration: mode, PAPER_TRADING, ENABLE_LIVE_ORDERS
    paperBalance,   \* engine.js paperBalance
    world,          \* state.interval, state.market, state.tokens
    books,          \* state.orderbooks (levels; the summaries are derived)
    collateral,     \* state.collateral
    arb,            \* state.arb
    certainty,      \* state.certainty
    underlying,     \* state.underlying and state.underlyingFeeds
    lag,            \* state.lag
    phase,          \* which timer of the current second is next: "market", "books", "collateral", "clock"
    exch,           \* the exchange: outcome shares bought by filled live orders, entries not yet exited or settled
    loops           \* the five polling loops: their flags, their executions in flight, what they wrote

engineVars == <<now, cfg, paperBalance, world, books, collateral, arb, certainty, underlying, lag,
               phase, exch, loops>>
vars == <<inp, out, now, cfg, paperBalance, world, books, collateral, arb, certainty, underlying, lag,
         phase, exch, loops>>

(***************************************************************************)
(* BookMath calls on bounded inputs                                        *)
(***************************************************************************)

MaxLevels == 2
PurePrices == {400, 499, 550}
PureSizes == {1, 3, 6}
PureFees == {0, 100}
PureBudgets == {MoneyScale, 2 * MoneyScale, 3 * MoneyScale}
PureShares == 1..4
PureMinPrices == {0, 499}

PureLevels == [price : PurePrices, size : PureSizes]
AnyLadders == UNION {[1..n -> PureLevels] : n \in 0..MaxLevels}
AskLadders == {l \in AnyLadders : \A i \in 1..(Len(l) - 1) : l[i].price < l[i + 1].price}

NoInput == [op |-> "none"]
NoOutput == [op |-> "none"]

PureInputs ==
    [op : {"costToBuy", "costToBuyReal"}, asks : AskLadders, shares : PureShares, feeBps : PureFees]
    \cup [op : {"proceeds"}, bids : AnyLadders, shares : PureShares, feeBps : PureFees,
          minPrice01 : PureMinPrices]
    \cup [op : {"maxShares", "maxSharesReal"}, asks : AskLadders, feeBps : PureFees,
          maxUsdc : PureBudgets, minShares : {1, 2}]
    \cup [op : {"straddle"}, upAsks : AskLadders, downAsks : AskLadders, feeBps : PureFees,
          maxUsdc : PureBudgets]

PureInit ==
    /\ inp \in PureInputs
    /\ out = NoOutput
    /\ now = 0 /\ cfg = NoOutput /\ paperBalance = 0 /\ world = NoOutput /\ books = NoOutput
    /\ collateral = NoOutput /\ arb = NoOutput /\ certainty = NoOutput /\ phase = "none" /\ exch = NoOutput
    /\ loops = NoOutput
    /\ underlying = NoOutput /\ lag = NoOutput

CallCostToBuy ==
    /\ inp.op = "costToBuy" /\ out = NoOutput
    /\ out' = [op |-> inp.op, res |-> costToBuySharesFromAsks(inp.asks, inp.shares, inp.feeBps)]
    /\ UNCHANGED <<inp, engineVars>>

CallCostToBuyReal ==
    /\ inp.op = "costToBuyReal" /\ out = NoOutput
    /\ out' = [op |-> inp.op, res |-> costToBuySharesFromAsksReal(inp.asks, inp.shares, NoLimit)]
    /\ UNCHANGED <<inp, engineVars>>

CallProceeds ==
    /\ inp.op = "proceeds" /\ out = NoOutput
    /\ out' = [op |-> inp.op,
               res |-> proceedsFromSellingSharesToBids(inp.bids, inp.shares, inp.feeBps, inp.minPrice01)]
    /\ UNCHANGED <<inp, engineVars>>

CallMaxShares ==
    /\ inp.op = "maxShares" /\ out = NoOutput
    /\ out' = [op |-> inp.op,
               res |-> maxSharesForBudget(inp.asks, inp.feeBps, inp.maxUsdc, inp.minShares)]
    /\ UNCHANGED <<inp, engineVars>>

CallMaxSharesReal ==
    /\ inp.op = "maxSharesReal" /\ out = NoOutput
    /\ out' = [op |-> inp.op,
               res |-> maxSharesForBudgetReal(inp.asks, inp.maxUsdc, NoLimit, inp.minShares)]
    /\ UNCHANGED <<inp, engineVars>>

CallStraddle ==
    /\ inp.op = "straddle" /\ out = NoOutput
    /\ out' = [op |-> inp.op,
               res |-> computeEqualProfitStraddle(inp.upAsks, inp.downAsks, inp.feeBps, inp.feeBps,
                                                  inp.maxUsdc, STRADDLE_MIN_SHARES,
                                                  STRADDLE_MIN_PROFIT_CENTS_X100)]
    /\ UNCHANGED <<inp, engineVars>>

PureNext ==
    \/ CallCostToBuy
    \/ CallCostToBuyReal
    \/ CallProceeds
    \/ CallMaxShares
    \/ CallMaxSharesReal
    \/ CallStraddle

SpecBook == PureInit /\ [][PureNext]_vars

(***************************************************************************)
(* Properties of the BookMath calls (checked under SpecBook)               *)
(***************************************************************************)

\* largest element of a non-empty finite set of integers
SetMax(S) == CHOOSE x \in S : \A y \in S : y <= x

\* share counts worth trying on a ladder: everything its depth could supply, and one more
Candidates(levels, minShares) == minShares..((sumSizes(levels) \div SizeScale) + 1)

\* C3: every non-null straddle costs at most the budget and earns, per share,
\* (N x $1 - totalCost) / N >= STRADDLE_MIN_PROFIT_CENTS.
C3_StraddleWithinBudgetAndFloor ==
    (out.op = "straddle" /\ out.res # null) =>
        /\ out.res.cost <= inp.maxUsdc
        /\ out.res.shares * MoneyScale - out.res.cost
             >= out.res.shares * STRADDLE_MIN_PROFIT_CENTS_X100 * CentX100Unit

\* what C4 calls a feasible share count: both legs fillable, summed cost within budget,
\* profit per share at or above the floor
StraddleFeasible(N) ==
    LET upFill == costToBuySharesFromAsks(inp.upAsks, N, inp.feeBps)
        downFill == costToBuySharesFromAsks(inp.downAsks, N, inp.feeBps)
    IN /\ upFill # null /\ downFill # null
       /\ upFill.cost + downFill.cost <= inp.maxUsdc
       /\ N * MoneyScale - (upFill.cost + downFill.cost)
            >= N * STRADDLE_MIN_PROFIT_CENTS_X100 * CentX100Unit

\* C4: computeEqualProfitStraddle returns the largest feasible N >= minShares,
\* and null only when there is none.
C4_StraddleReturnsLargestFeasible ==
    out.op = "straddle" =>
        LET F == {N \in Candidates(inp.upAsks, STRADDLE_MIN_SHARES) : StraddleFeasible(N)}
        IN IF F = {} THEN out.res = null
           ELSE out.res # null /\ out.res.shares = SetMax(F)

\* C5: maxSharesForBudget and maxSharesForBudgetReal return the largest integer
\* N >= minShares that is fillable with fee-inclusive cost <= budget, and null
\* only when no such N exists.
C5_MaxSharesIsLargestAffordable ==
    /\ out.op = "maxShares" =>
        LET F == {N \in Candidates(inp.asks, inp.minShares) :
                    /\ costToBuySharesFromAsks(inp.asks, N, inp.feeBps) # null
                    /\ costToBuySharesFromAsks(inp.asks, N, inp.feeBps).cost <= inp.maxUsdc}
        IN IF F = {} THEN out.res = null
           ELSE /\ out.res # null
                /\ out.res.shares = SetMax(F)
                /\ out.res.cost = costToBuySharesFromAsks(inp.asks, SetMax(F), inp.feeBps).cost
    /\ out.op = "maxSharesReal" =>
        LET F == {N \in Candidates(inp.asks, inp.minShares) :
                    /\ costToBuySharesFromAsksReal(inp.asks, N, NoLimit) # null
                    /\ MixedLeq(costToBuySharesFromAsksReal(inp.asks, N, NoLimit).cost,
                                MixedOfInt(inp.maxUsdc))}
        IN IF F = {} THEN out.res = null
           ELSE /\ out.res # null
                /\ out.res.shares = SetMax(F)

\* a search that stopped at the budget, not at the depth, after crossing a level
C5_Witness ==
    /\ out.op = "maxShares" /\ out.res # null
    /\ out.res.shares >= 2
    /\ out.res.maxPrice > inp.asks[1].price
    /\ costToBuySharesFromAsks(inp.asks, out.res.shares + 1, inp.feeBps) # null

\* the bids a sell may use: those before the first one priced below minPrice
RECURSIVE LeadingBids(_, _)
LeadingBids(bids, minPrice01) ==
    IF Len(bids) = 0 THEN <<>>
    ELSE IF Head(bids).price < minPrice01 THEN <<>>
    ELSE <<Head(bids)>> \o LeadingBids(Tail(bids), minPrice01)

\* C6: a buy (sell) sweep returns a fill exactly when the asks (the leading bids
\* priced >= minPrice) supply the requested shares, and then consumes exactly
\* `shares`; otherwise it returns null.
C6_SweepsAreAllOrNothing ==
    /\ out.op = "costToBuy" =>
        /\ (out.res # null) <=> (sumSizes(inp.asks) >= inp.shares * SizeScale)
        /\ out.res # null => out.res.taken = inp.shares * SizeScale
    /\ out.op = "proceeds" =>
        /\ (out.res # null) <=>
               (sumSizes(LeadingBids(inp.bids, inp.minPrice01)) >= inp.shares * SizeScale)
        /\ out.res # null =>
               /\ out.res.taken = inp.shares * SizeScale
               /\ out.res.minFilledPrice >= inp.minPrice01

\* a sell refused although bids behind a too-low level would have covered it
C6_Witness ==
    /\ out.op = "proceeds" /\ out.res = null
    /\ sumSizes(inp.bids) >= inp.shares * SizeScale
    /\ \E i \in 1..Len(inp.bids) : \E j \in 1..Len(inp.bids) :
          i < j /\ inp.bids[i].price < inp.minPrice01 /\ inp.bids[j].price >= inp.minPrice01

\* C7: on an ascending ask ladder, whenever N + 1 shares are fillable,
\* costToBuy(asks, N) <= costToBuy(asks, N + 1), for the bps-fee and for the
\* price-dependent-fee version.
C7_CostIsMonotone ==
    /\ out.op = "costToBuy" =>
        LET next == costToBuySharesFromAsks(inp.asks, inp.shares + 1, inp.feeBps)
        IN (out.res # null /\ next # null) => out.res.cost <= next.cost
    /\ out.op = "costToBuyReal" =>
        LET next == costToBuySharesFromAsksReal(inp.asks, inp.shares + 1, NoLimit)
        IN (out.res # null /\ next # null) => MixedLeq(out.res.cost, next.cost)

\* N shares end on the first level, N + 1 shares reach the second
C7_Witness ==
    /\ out.op = "costToBuy" /\ out.res # null
    /\ costToBuySharesFromAsks(inp.asks, inp.shares + 1, inp.feeBps) # null
    /\ costToBuySharesFromAsks(inp.asks, inp.shares + 1, inp.feeBps).maxPrice > out.res.maxPrice

(***************************************************************************)
(* Engine state and helpers (engine.js)                                    *)
(***************************************************************************)

INITIAL_BALANCE == 1 * MoneyScale
INTERVAL_SECONDS == 900

\* null Date / null number / null id
NoTime == -1
NoNum == -1
NoId == 0

\* the mutable engine state as one value, threaded through the steps of a loop
Cur ==
    [paperBalance |-> paperBalance, world |-> world, books |-> books,
     collateral |-> collateral, arb |-> arb, certainty |-> certainty, underlying |-> underlying,
     lag |-> lag, exch |-> exch]

Becomes(S) ==
    /\ paperBalance' = S.paperBalance
    /\ world' = S.world
    /\ books' = S.books
    /\ collateral' = S.collateral
    /\ arb' = S.arb
    /\ certainty' = S.certainty
    /\ underlying' = S.underlying
    /\ lag' = S.lag
    /\ exch' = S.exch

nowSec == now \div 1000

getIntervalStartEpoch(nowEpochSec) == (nowEpochSec \div INTERVAL_SECONDS) * INTERVAL_SECONDS

\* the market (and condition) of the interval that starts at startSec; never NoId
MarketOfInterval(startSec) == (startSec \div INTERVAL_SECONDS) + 2

\* computeMarkPrice, doubled: (bestBid + bestAsk) / 2 is kept as bestBid + bestAsk
computeMarkPrice2(bestBid, bestAsk) ==
    IF bestBid > 0 /\ bestAsk > 0 THEN bestBid + bestAsk
    ELSE IF bestAsk > 0 THEN 2 * bestAsk
    ELSE IF bestBid > 0 THEN 2 * bestBid
    ELSE 0

\* Array.prototype.sort is stable: a level goes behind the levels it ties with
RECURSIVE InsertLevel(_, _, _)
InsertLevel(sorted, l, ascending) ==
    IF sorted = <<>> THEN <<l>>
    ELSE LET before == IF ascending THEN sorted[1].price <= l.price ELSE sorted[1].price >= l.price
         IN IF before THEN <<sorted[1]>> \o InsertLevel(Tail(sorted), l, ascending)
            ELSE <<l>> \o sorted

RECURSIVE SortLevels(_, _)
SortLevels(levels, ascending) ==
    IF levels = <<>> THEN <<>>
    ELSE InsertLevel(SortLevels(SubSeq(levels, 1, Len(levels) - 1), ascending),
                     levels[Len(levels)], ascending)

sortBidsAsksFromBook(book) ==
    [bids |-> SortLevels(book.bids, FALSE), asks |-> SortLevels(book.asks, TRUE)]

\* a value bound once, as a const of the source is, and handed to what follows
Bind(v, Op(_)) == Op(v)

\* the dashboard's five-level slices are left out
summarizeOrderbook(book) ==
    Bind(sortBidsAsksFromBook(book), LAMBDA sides :
    Bind(IF Len(sides.bids) > 0 THEN sides.bids[1].price ELSE 0, LAMBDA bestBid :
    Bind(IF Len(sides.asks) > 0 THEN sides.asks[1].price ELSE 0, LAMBDA bestAsk :
        [bestBid |-> bestBid, bestAsk |-> bestAsk, mark2 |-> computeMarkPrice2(bestBid, bestAsk)])))

\* up?.bestAsk, up?.bestBid, up?.mark (doubled) of state.orderbooks.up / .down
bestAskOf(summary) == IF summary = null THEN 0 ELSE summary.bestAsk
bestBidOf(summary) == IF summary = null THEN 0 ELSE summary.bestBid
mark2Of(summary) == IF summary = null THEN 0 ELSE summary.mark2

\* liveCanSpendUsdc(requiredUsdc): "ok", or which of its reasons refuses; the 1e-9
\* dollar slack is below one money unit
liveCanSpendUsdc(S, requiredUsdc) ==
    IF ~(requiredUsdc > 0) THEN "ok"
    ELSE LET bal == S.collateral.balanceUsdc
             allow == S.collateral.allowanceUsdc
         IN IF bal = NoNum \/ allow = NoNum THEN "unknown"
            ELSE IF bal < MoneyScale \div 2 THEN "too low"
            ELSE IF bal < requiredUsdc THEN "insufficient balance"
            ELSE IF allow < requiredUsdc THEN "insufficient allowance"
            ELSE "ok"

\* outcomes of one createAndPostOrder(order, FOK): matched in full, answered
\* without a fill, or the call rejects
OrderOutcomes == {"filled", "unfilled", "throw"}

\* what resolveGammaWinnerForMarketId can answer
Winners == {"none", "UP", "DOWN"}

(***************************************************************************)
(* Arbitrage mode (part_000)                                               *)
(***************************************************************************)

executePaperStraddle(S, sharesPerSide, totalCostUsdc) ==
    IF ~(totalCostUsdc > 0) THEN S
    ELSE IF totalCostUsdc > S.paperBalance THEN S
    ELSE IF S.arb.open # null THEN S
    ELSE [S EXCEPT
            !.paperBalance = S.paperBalance - totalCostUsdc,
            !.arb.open = [sharesPerSide |-> sharesPerSide,
                          totalCostUsdc |-> totalCostUsdc,
                          openedAt |-> now,
                          endEpochSec |-> IF S.world.endEpochSec # NoNum THEN S.world.endEpochSec
                                          ELSE nowSec + 15 * 60,
                          marketId |-> S.world.marketId],
            !.exch.entries = S.exch.entries + 1]

\* the exchange's side of one FOK order: a filled buy adds the shares to the
\* account, a filled sell takes them out; a killed order changes nothing
ExchangeFill(S, side, delta, outcome) ==
    IF outcome # "filled" THEN S
    ELSE [S EXCEPT
            !.exch.up = IF side = "up" THEN Max(0, @ + delta) ELSE @,
            !.exch.down = IF side = "down" THEN Max(0, @ + delta) ELSE @,
            !.exch.endEpochSec = IF delta > 0 THEN Max(@, S.world.endEpochSec) ELSE @]

\* one more entry is standing at the exchange / one entry has been exited
ExchangeEntered(S) == [S EXCEPT !.exch.entries = @ + 1]
ExchangeExited(S) == [S EXCEPT !.exch.entries = Max(0, @ - 1)]

\* executeLiveStraddle: [S, threw]; the CLOB credentials are present
executeLiveStraddle(S, straddle, oUp, oDown) ==
    IF cfg.paper THEN [S |-> S, threw |-> FALSE]
    ELSE IF ~cfg.enableLive THEN [S |-> S, threw |-> FALSE]
    ELSE IF S.world.upTokenId = NoId \/ S.world.downTokenId = NoId THEN [S |-> S, threw |-> TRUE]
    ELSE IF liveCanSpendUsdc(S, straddle.cost) # "ok" THEN [S |-> S, threw |-> FALSE]
    ELSE IF oUp = "throw" THEN [S |-> S, threw |-> TRUE]
    ELSE Bind(ExchangeFill(S, "up", straddle.shares, oUp), LAMBDA S1 :
         Bind(IF oDown = "throw" THEN S1 ELSE ExchangeFill(S1, "down", straddle.shares, oDown), LAMBDA S2 :
             [S |-> IF oUp = "filled" \/ oDown = "filled" THEN ExchangeEntered(S2) ELSE S2,
              threw |-> (oDown = "throw")]))

\* onOrderbooks from the cooldown test on; S1 carries the suggestion of this tick
ArbTrade(S1, straddle, oUp, oDown) ==
    IF straddle = null THEN S1
    ELSE IF ~(S1.arb.lastTradeAt = NoTime \/ (now - S1.arb.lastTradeAt) >= STRADDLE_COOLDOWN_MS) THEN S1
    ELSE IF cfg.paper
         THEN [executePaperStraddle(S1, straddle.shares, straddle.cost) EXCEPT !.arb.lastTradeAt = now]
    ELSE IF ~cfg.enableLive THEN S1
    ELSE Bind(executeLiveStraddle(S1, straddle, oUp, oDown), LAMBDA r :
             IF r.threw THEN r.S ELSE [r.S EXCEPT !.arb.lastTradeAt = now])

\* createArbitrageMode().onOrderbooks
ArbOnOrderbooks(S, oUp, oDown) ==
    IF cfg.paper /\ S.arb.open # null THEN S
    ELSE IF ~(bestAskOf(S.books.up) > 0 /\ bestAskOf(S.books.down) > 0) THEN S
    ELSE IF S.world.upFeeBps = NoNum \/ S.world.downFeeBps = NoNum
         THEN [S EXCEPT !.arb.suggestedShares = NoNum, !.arb.suggestedCost = NoNum]
    ELSE Bind(computeEqualProfitStraddle(S.books.upAsksLevels, S.books.downAsksLevels,
                                         S.world.upFeeBps, S.world.downFeeBps,
                                         IF cfg.paper THEN Min(S.paperBalance, STRADDLE_MAX_USDC)
                                         ELSE STRADDLE_MAX_USDC,
                                         STRADDLE_MIN_SHARES, STRADDLE_MIN_PROFIT_CENTS_X100),
              LAMBDA straddle :
                 ArbTrade([S EXCEPT
                             !.arb.suggestedShares = IF straddle = null THEN NoNum ELSE straddle.shares,
                             !.arb.suggestedCost = IF straddle = null THEN NoNum ELSE straddle.cost],
                          straddle, oUp, oDown))

(***************************************************************************)
(* Certainty mode (part_001): strategy state and entry / exit conditions   *)
(***************************************************************************)

\* comparisons of rational prices
RatLeq(a, b) == a.n * b.d <= b.n * a.d
RatEq(a, b) == a.n * b.d = b.n * a.d

\* a mixed number of money units, to whole units
MoneyOf(m) == m.q


timeRemainingSec(S) ==
    IF S.world.endEpochSec = NoNum THEN NoNum
    ELSE Max(0, S.world.endEpochSec - nowSec)

\* getBooks(ctx, side)
getBooks(S, side) ==
    IF side = "up"
    THEN [side |-> side, tokenId |-> S.world.upTokenId, asks |-> S.books.upAsksLevels,
          bids |-> S.books.upBidsLevels, summary |-> S.books.up]
    ELSE [side |-> side, tokenId |-> S.world.downTokenId, asks |-> S.books.downAsksLevels,
          bids |-> S.books.downBidsLevels, summary |-> S.books.down]

spreadOk(summary) ==
    LET a == bestAskOf(summary)
        b == bestBidOf(summary)
    IN IF ~(a > 0) \/ ~(b > 0) THEN FALSE
       ELSE (a - b) <= MAX_SPREAD

\* updateOHLC; a candle's high and low are written here and read nowhere else
updateOHLC(cert, side, price) ==
    LET data == cert.candles[side]
        currentMinute == now \div 60000
        rolled == data.current = null \/ data.current.minute # currentMinute
        archived == IF rolled /\ data.current # null
                    THEN LET h == Append(data.history, data.current)
                         IN IF Len(h) > 5 THEN Tail(h) ELSE h
                    ELSE data.history
        current == IF rolled
                   THEN [minute |-> currentMinute, open |-> price, close |-> price, startTime |-> now]
                   ELSE data.current
    IN [cert EXCEPT !.candles[side] = [current |-> [current EXCEPT !.close = price],
                                       history |-> archived]]

isBullishMomentum(cert, side) ==
    LET data == cert.candles[side]
        c == data.current
    IN IF c = null THEN FALSE
       ELSE IF c.close >= c.open - PRICE_EPS THEN TRUE
       ELSE IF Len(data.history) > 0 /\ c.close >= data.history[Len(data.history)].close - PRICE_EPS
            THEN TRUE
       ELSE FALSE

isWarmedUp(cert, side) ==
    LET data == cert.candles[side]
    IN IF data.current = null THEN FALSE
       ELSE (now - data.current.startTime) > 5 * 1000

DefaultRange == [min |-> Rat(ENTRY_PRICE_MIN, 1), max |-> Rat(ENTRY_PRICE_MAX, 1)]
ReentryRange == [min |-> Rat(REENTRY_PRICE_MIN, 1), max |-> Rat(REENTRY_PRICE_MAX, 1)]
\* [max(0.01, reentryPrice - buffer), reentryPrice + buffer]
StopLossRange(reentryPrice) ==
    [min |-> IF (reentryPrice.n - STOP_LOSS_BUFFER * reentryPrice.d) * 100 >= PriceScale * reentryPrice.d
             THEN Rat(reentryPrice.n - STOP_LOSS_BUFFER * reentryPrice.d, reentryPrice.d)
             ELSE Rat(PriceScale \div 100, 1),
     max |-> Rat(reentryPrice.n + STOP_LOSS_BUFFER * reentryPrice.d, reentryPrice.d)]

\* getCurrentEntryRange: [S, range]; the Beat Price capture is dashboard state
getCurrentEntryRange(S) ==
    LET iState == S.certainty.intervalState
        currentMarketId == S.world.marketId
    IN IF currentMarketId = NoId \/ currentMarketId # iState.marketId
       THEN [S |-> [S EXCEPT !.certainty.intervalState.marketId = currentMarketId,
                             !.certainty.intervalState.lastExitType = "none",
                             !.certainty.intervalState.entryCount = 0,
                             !.certainty.intervalState.lastStopLossExitPrice = null],
             range |-> DefaultRange]
       ELSE IF iState.lastExitType = "stop-loss"
            THEN IF iState.lastStopLossExitPrice # null
                 THEN [S |-> S, range |-> StopLossRange(iState.lastStopLossExitPrice)]
                 ELSE [S |-> S, range |-> ReentryRange]
       ELSE [S |-> S, range |-> DefaultRange]

\* bestAsk within [range.min - PRICE_EPS, range.max + PRICE_EPS]
AskWithin(bestAsk, range) ==
    /\ ~(bestAsk * range.max.d > range.max.n + PRICE_EPS * range.max.d)
    /\ ~(bestAsk * range.min.d < range.min.n - PRICE_EPS * range.min.d)

\* canEnterPosition from the band test on; S carries the reset of getCurrentEntryRange
EnterInRange(S, range, bk, side, reentryRequired) ==
    LET capitalBefore == IF cfg.paper THEN S.paperBalance ELSE S.collateral.balanceUsdc
        budget == IF cfg.paper THEN capitalBefore - ORDER_GAS_USDC ELSE capitalBefore
    IN IF ~AskWithin(bestAskOf(bk.summary), range) THEN [S |-> S, ok |-> FALSE]
       ELSE IF ~reentryRequired /\ ~isBullishMomentum(S.certainty, side) THEN [S |-> S, ok |-> FALSE]
       ELSE IF ~(capitalBefore > 0) THEN [S |-> S, ok |-> FALSE]
       ELSE IF ~(budget > 0) THEN [S |-> S, ok |-> FALSE]
       ELSE Bind(maxSharesForBudgetReal(bk.asks, budget, range.max, MIN_SHARES), LAMBDA fill :
                IF fill = null THEN [S |-> S, ok |-> FALSE]
                ELSE [S |-> S, ok |-> TRUE, side |-> side, entryRange |-> range,
                      books |-> bk, fill |-> fill, capitalBefore |-> capitalBefore])

\* canEnterPosition: [S, ok, ...]; S carries the interval-state reset of getCurrentEntryRange
canEnterPosition(S, side, tRem) ==
    LET reentryRequired == S.certainty.intervalState.requireReentryUntilResolved
    IN IF ~reentryRequired /\ ~isWarmedUp(S.certainty, side) THEN [S |-> S, ok |-> FALSE]
       ELSE IF ~reentryRequired /\ (tRem = NoNum \/ tRem > ENTRY_TIME_WINDOW_SEC) THEN [S |-> S, ok |-> FALSE]
       ELSE Bind(getBooks(S, side), LAMBDA bk :
                IF ~(bestAskOf(bk.summary) > 0) THEN [S |-> S, ok |-> FALSE]
                ELSE IF ~spreadOk(bk.summary) THEN [S |-> S, ok |-> FALSE]
                ELSE Bind(getCurrentEntryRange(S), LAMBDA r :
                         EnterInRange(r.S, r.range, bk, side, reentryRequired)))

\* the price both exit checks look at, doubled: the mark when there is one, else the best bid
ExitPx2(S, open) ==
    Bind(getBooks(S, open.side).summary, LAMBDA summary :
        IF mark2Of(summary) > 0 THEN mark2Of(summary) ELSE 2 * bestBidOf(summary))

\* checkStopLoss(ctx, open).trigger
checkStopLoss(S, open) ==
    IF open = null THEN FALSE
    ELSE IF now - open.openedAt < 2000 THEN FALSE
    ELSE Bind(ExitPx2(S, open), LAMBDA px2 :
             IF ~(px2 > 0) THEN FALSE
             ELSE px2 <= 2 * (STOP_LOSS_PRICE + PRICE_EPS))

\* checkTakeProfit(ctx, open).trigger
checkTakeProfit(S, open) ==
    Bind(ExitPx2(S, open), LAMBDA px2 :
        IF ~(px2 > 0) THEN FALSE
        ELSE /\ px2 >= 2 * (TAKE_PROFIT_MIN - PRICE_EPS)
             /\ px2 <= 2 * (TAKE_PROFIT_MAX + PRICE_EPS))

cooldownOk(S) ==
    S.certainty.lastTradeAt = NoTime \/ (now - S.certainty.lastTradeAt) >= COOLDOWN_MS

bumpConfirm(S, side) ==
    IF S.certainty.confirm.side = side
    THEN [S EXCEPT !.certainty.confirm.ticks = @ + 1]
    ELSE [S EXCEPT !.certainty.confirm = [side |-> side, ticks |-> 1]]

clearConfirm(S) == [S EXCEPT !.certainty.confirm = [side |-> "none", ticks |-> 0]]

(***************************************************************************)
(* Certainty mode: executions and the order-book handler                   *)
(***************************************************************************)

\* ctx.state.certainty.open as both executions write it (the trade log is left out)
OpenPosition(S, tradeId, side, tokenId, shares, entryCostUsdc, maxPrice01) ==
    [tradeId |-> tradeId, side |-> side, tokenId |-> tokenId, shares |-> shares,
     entryCostUsdc |-> entryCostUsdc, entryLimitPrice |-> maxPrice01, openedAt |-> now,
     endEpochSec |-> IF S.world.endEpochSec # NoNum THEN S.world.endEpochSec ELSE nowSec + 15 * 60,
     marketId |-> S.world.marketId]

\* recordTrade: the ledger record of an entry, of which the id, the side, the size,
\* the price and the status are kept
recordTrade(trades, position) ==
    Append(trades, [tradeId |-> position.tradeId, entrySide |-> position.side,
                    shares |-> position.shares, entryPrice |-> position.entryLimitPrice,
                    exitType |-> "none", status |-> "OPEN"])

\* findTrade (findCertaintyTrade in engine.js): the index of the first record of the
\* trade, 0 when there is none
findTrade(trades, tradeId) ==
    IF \E i \in DOMAIN trades : trades[i].tradeId = tradeId
    THEN CHOOSE i \in DOMAIN trades :
            /\ trades[i].tradeId = tradeId
            /\ \A j \in DOMAIN trades : trades[j].tradeId = tradeId => i <= j
    ELSE 0

\* "if (t) { t.exitType = ...; t.status = ... }": the record of the trade is written over
TradeClosed(trades, tradeId, exitType, status) ==
    IF findTrade(trades, tradeId) = 0 THEN trades
    ELSE [trades EXCEPT ![findTrade(trades, tradeId)] = [@ EXCEPT !.exitType = exitType,
                                                                  !.status = status]]

\* "Update interval state", "Clear re-entry requirement on successful entry" and recordTrade
EntryBooked(S, position) ==
    [S EXCEPT !.certainty.open = position,
              !.certainty.intervalState.entryCount = @ + 1,
              !.certainty.intervalState.requireReentryUntilResolved = FALSE,
              !.certainty.intervalState.lastExitType = "none",
              !.certainty.trades = recordTrade(@, position)]

executePaperBuy(S, tradeId, side, tokenId, shares, fill, maxPrice01) ==
    IF S.certainty.open # null THEN S
    ELSE IF ~(shares > 0) \/ fill = null THEN S
    ELSE IF ~MixedLeq([q |-> fill.cost.q + ORDER_GAS_USDC, r |-> fill.cost.r, d |-> fill.cost.d],
                      MixedOfInt(S.paperBalance)) THEN S
    ELSE Bind([S EXCEPT !.paperBalance = @ - (MoneyOf(fill.cost) + ORDER_GAS_USDC)], LAMBDA S1 :
             ExchangeEntered(EntryBooked(S1, OpenPosition(S1, tradeId, side, tokenId, shares,
                                                          MoneyOf(fill.cost), maxPrice01))))

\* executeLiveBuy from createAndPostOrder on; S1 carries the refreshed collateral
LiveBuyOrder(S1, enter, tradeId, limitPrice01, order) ==
    IF order = "throw" THEN [S |-> S1, threw |-> TRUE]
    ELSE Bind(ExchangeFill(S1, enter.side, enter.fill.shares, order), LAMBDA S2 :
         Bind(IF order = "filled" THEN ExchangeEntered(S2) ELSE S2, LAMBDA S3 :
             [S |-> EntryBooked(S3, OpenPosition(S3, tradeId, enter.side, enter.books.tokenId,
                                                 enter.fill.shares, MoneyOf(enter.fill.cost),
                                                 limitPrice01)),
              threw |-> FALSE]))

\* executeLiveBuy without the ENABLE_LIVE_ORDERS gate
executeLiveBuy_noGate(S, enter, tradeId, limitPrice01, e) ==
    IF cfg.paper THEN [S |-> S, threw |-> FALSE]
    ELSE IF enter.books.tokenId = NoId THEN [S |-> S, threw |-> TRUE]
    ELSE Bind(liveCanSpendUsdc(S, MoneyOf(enter.fill.cost)), LAMBDA first :
         Bind(IF first = "unknown" /\ e.refresh.ok
              THEN [S EXCEPT !.collateral = [balanceUsdc |-> e.refresh.balance,
                                             allowanceUsdc |-> e.refresh.allowance]]
              ELSE S, LAMBDA S1 :
         Bind(IF first = "unknown" /\ e.refresh.ok
              THEN liveCanSpendUsdc(S1, MoneyOf(enter.fill.cost))
              ELSE first, LAMBDA canSpend :
             IF canSpend # "ok" THEN [S |-> S1, threw |-> FALSE]
             ELSE LiveBuyOrder(S1, enter, tradeId, limitPrice01, e.order))))

\* executeLiveBuy: [S, threw]; e.refresh answers the synchronous getBalanceAllowance,
\* e.order is the outcome of createAndPostOrder
executeLiveBuy(S, enter, tradeId, limitPrice01, e) ==
    IF cfg.paper THEN [S |-> S, threw |-> FALSE]
    ELSE IF ~cfg.enableLive THEN [S |-> S, threw |-> FALSE]
    ELSE IF enter.books.tokenId = NoId THEN [S |-> S, threw |-> TRUE]
    ELSE Bind(liveCanSpendUsdc(S, MoneyOf(enter.fill.cost)), LAMBDA first :
         Bind(IF first = "unknown" /\ e.refresh.ok
              THEN [S EXCEPT !.collateral = [balanceUsdc |-> e.refresh.balance,
                                             allowanceUsdc |-> e.refresh.allowance]]
              ELSE S, LAMBDA S1 :
         Bind(IF first = "unknown" /\ e.refresh.ok
              THEN liveCanSpendUsdc(S1, MoneyOf(enter.fill.cost))
              ELSE first, LAMBDA canSpend :
             IF canSpend # "ok" THEN [S |-> S1, threw |-> FALSE]
             ELSE LiveBuyOrder(S1, enter, tradeId, limitPrice01, e.order))))

\* a paper sell that takes the proceeds from the balance instead of adding them
executePaperSell_debits(S, open, sellFill, exitType) ==
    IF open = null THEN S
    ELSE IF sellFill = null THEN S
    ELSE ExchangeExited(
             [S EXCEPT !.paperBalance = @ - MoneyOf(sellFill.proceeds) - ORDER_GAS_USDC,
                       !.certainty.intervalState.lastExitType = exitType,
                       !.certainty.intervalState.lastStopLossExitPrice =
                           IF exitType = "stop-loss" THEN sellFill.avgPrice ELSE @,
                       !.certainty.intervalState.requireReentryUntilResolved =
                           IF exitType = "stop-loss" THEN TRUE ELSE @,
                       !.certainty.trades =
                           TradeClosed(@, open.tradeId, exitType,
                                       IF exitType = "take-profit" THEN "PROFIT" ELSE "STOPPED"),
                       !.certainty.open = null])

executePaperSell(S, open, sellFill, exitType) ==
    IF open = null THEN S
    ELSE IF sellFill = null THEN S
    ELSE ExchangeExited(
             [S EXCEPT !.paperBalance = @ + MoneyOf(sellFill.proceeds) - ORDER_GAS_USDC,
                       !.certainty.intervalState.lastExitType = exitType,
                       !.certainty.intervalState.lastStopLossExitPrice =
                           IF exitType = "stop-loss" THEN sellFill.avgPrice ELSE @,
                       !.certainty.intervalState.requireReentryUntilResolved =
                           IF exitType = "stop-loss" THEN TRUE ELSE @,
                       !.certainty.trades =
                           TradeClosed(@, open.tradeId, exitType,
                                       IF exitType = "take-profit" THEN "PROFIT" ELSE "STOPPED"),
                       !.certainty.open = null])

\* executeLiveSell: [S, threw]
executeLiveSell(S, open, tokenId, minPrice01, proceedsUsdc, exitType, order) ==
    IF cfg.paper THEN [S |-> S, threw |-> FALSE]
    ELSE IF ~cfg.enableLive THEN [S |-> S, threw |-> FALSE]
    ELSE IF tokenId = NoId THEN [S |-> S, threw |-> TRUE]
    ELSE IF order = "throw" THEN [S |-> S, threw |-> TRUE]
    ELSE Bind(ExchangeFill(S, open.side, 0 - open.shares, order), LAMBDA S1 :
         Bind(IF order = "filled" THEN ExchangeExited(S1) ELSE S1, LAMBDA S2 :
             [S |-> [S2 EXCEPT !.certainty.intervalState.lastExitType = exitType,
                               !.certainty.intervalState.lastStopLossExitPrice =
                                   IF exitType = "stop-loss" THEN Rat(minPrice01, 1) ELSE @,
                               !.certainty.intervalState.requireReentryUntilResolved =
                                   IF exitType = "stop-loss" THEN TRUE ELSE @,
                               !.collateral.balanceUsdc =
                                   (IF @ # NoNum THEN @ ELSE 0) + proceedsUsdc - ORDER_GAS_USDC,
                               !.certainty.trades =
                                   TradeClosed(@, open.tradeId, exitType,
                                               IF exitType = "take-profit" THEN "PROFIT" ELSE "STOPPED"),
                               !.certainty.open = null],
              threw |-> FALSE]))

\* the bookkeeping after a sell that did not throw
AfterSell(S) ==
    [clearConfirm(S) EXCEPT !.certainty.lastTradeAt = now,
                            !.certainty.stopConfirm = 0]

\* either sell, as the handler calls it: [S, threw]
Sell(S1, open, bk, sellFill, minPrice01, exitType, order) ==
    IF cfg.paper
    THEN [S |-> executePaperSell(S1, open, sellFill, exitType), threw |-> FALSE]
    ELSE executeLiveSell(S1, open, bk.tokenId, minPrice01, MoneyOf(sellFill.proceeds), exitType, order)

\* onOrderbooks, take-profit branch (tp.trigger holds)
CertTakeProfit(S, open, e) ==
    Bind([S EXCEPT !.certainty.tpConfirm = @ + 1], LAMBDA S1 :
        IF S1.certainty.tpConfirm < CONFIRM_TICKS THEN S1
        ELSE IF ~cooldownOk(S1) THEN S1
        ELSE Bind(getBooks(S1, open.side), LAMBDA bk :
             Bind(proceedsFromSellingSharesToBidsReal(bk.bids, open.shares,
                                                      Rat(TAKE_PROFIT_MIN - TAKE_PROFIT_BUFFER, 1)),
                  LAMBDA sellFill :
                 IF sellFill = null THEN S1
                 ELSE Bind(Sell(S1, open, bk, sellFill, TAKE_PROFIT_MIN - TAKE_PROFIT_BUFFER,
                                "take-profit", e.order), LAMBDA sold :
                          IF sold.threw THEN sold.S
                          ELSE [AfterSell(sold.S) EXCEPT !.certainty.tpConfirm = 0]))))

\* the stop-loss branch from the sell on; exch.actualExitPrice keeps the handler's
\* local actualExitPrice of the last stop-loss sell
StopLossSell(S1, open, bk, bestAvailablePrice, e) ==
    Bind(proceedsFromSellingSharesToBidsReal(bk.bids, open.shares, Rat(bestAvailablePrice, 1)),
         LAMBDA sellFill :
        IF sellFill = null THEN S1
        ELSE Bind(Sell(S1, open, bk, sellFill, bestAvailablePrice, "stop-loss", e.order), LAMBDA sold :
                 IF sold.threw THEN [sold.S EXCEPT !.certainty.tpConfirm = 0]
                 ELSE [AfterSell(sold.S) EXCEPT !.certainty.tpConfirm = 0,
                                                !.exch.actualExitPrice = sellFill.avgPrice]))

\* onOrderbooks, stop-loss branch (sl.trigger holds)
CertStopLoss(S, open, e) ==
    Bind([S EXCEPT !.certainty.stopConfirm = @ + 1], LAMBDA S1 :
        IF S1.certainty.stopConfirm < CONFIRM_TICKS THEN S1
        ELSE IF ~cooldownOk(S1) THEN S1
        ELSE Bind(getBooks(S1, open.side), LAMBDA bk :
             Bind(findBestAvailableSellPrice(bk.bids, STOP_LOSS_PRICE, STOP_LOSS_BUFFER),
                  LAMBDA bestAvailablePrice :
                 IF bestAvailablePrice = 0 THEN S1
                 ELSE StopLossSell(S1, open, bk, bestAvailablePrice, e))))

\* onOrderbooks, "POSITION MANAGEMENT", with the stop-loss branch checked first
CertManagePosition_stopFirst(S, open, e) ==
    LET currentTokenId == IF open.side = "up" THEN S.world.upTokenId ELSE S.world.downTokenId
    IN IF open.endEpochSec # NoNum /\ nowSec >= open.endEpochSec THEN S
       ELSE IF currentTokenId # NoId /\ open.tokenId # NoId /\ currentTokenId # open.tokenId THEN S
       ELSE IF open.marketId # NoId /\ S.world.marketId # NoId /\ open.marketId # S.world.marketId THEN S
       ELSE IF checkStopLoss(S, open) \/ checkTakeProfit(S, open) THEN CertStopLoss(S, open, e)
       ELSE [S EXCEPT !.certainty.tpConfirm = 0]

\* onOrderbooks, "POSITION MANAGEMENT"
CertManagePosition(S, open, e) ==
    LET currentTokenId == IF open.side = "up" THEN S.world.upTokenId ELSE S.world.downTokenId
    IN IF open.endEpochSec # NoNum /\ nowSec >= open.endEpochSec THEN S
       ELSE IF currentTokenId # NoId /\ open.tokenId # NoId /\ currentTokenId # open.tokenId THEN S
       ELSE IF open.marketId # NoId /\ S.world.marketId # NoId /\ open.marketId # S.world.marketId THEN S
       ELSE IF checkTakeProfit(S, open) THEN CertTakeProfit(S, open, e)
       ELSE IF checkStopLoss(S, open) THEN CertStopLoss(S, open, e)
       ELSE [S EXCEPT !.certainty.tpConfirm = 0]

\* "Choose the best entry (prefer the one with more shares)"
PickEntry(upEntry, downEntry) ==
    IF upEntry.ok /\ downEntry.ok
    THEN (IF upEntry.fill.shares >= downEntry.fill.shares THEN upEntry ELSE downEntry)
    ELSE IF upEntry.ok THEN upEntry
    ELSE downEntry

\* either buy, as the handler calls it: [S, threw]
Buy(S4, enter, e) ==
    IF cfg.paper
    THEN [S |-> executePaperBuy(S4, S4.certainty.tradeSeq, enter.side, enter.books.tokenId,
                                enter.fill.shares, enter.fill, enter.entryRange.max),
          threw |-> FALSE]
    ELSE executeLiveBuy(S4, enter, S4.certainty.tradeSeq, enter.entryRange.max, e)

\* the entry branch once the better side is chosen; S2 carries the required band
CertEnter(S2, enter, e) ==
    IF ~enter.ok THEN clearConfirm(S2)
    ELSE IF ~cooldownOk(S2) THEN S2
    ELSE Bind(bumpConfirm(S2, enter.side), LAMBDA S3 :
             IF S3.certainty.confirm.ticks < CONFIRM_TICKS THEN S3
             ELSE Bind(Buy([S3 EXCEPT !.certainty.tradeSeq = @ + 1], enter, e), LAMBDA bought :
                      IF bought.threw THEN bought.S
                      ELSE [clearConfirm(bought.S) EXCEPT !.certainty.lastTradeAt = now]))

\* onOrderbooks, "NO OPEN POSITION"
CertSeekEntry(S, tRem, e) ==
    Bind(canEnterPosition([S EXCEPT !.certainty.stopConfirm = 0, !.certainty.tpConfirm = 0],
                          "up", tRem), LAMBDA upEntry :
    Bind(canEnterPosition(upEntry.S, "down", tRem), LAMBDA downEntry :
    Bind(getCurrentEntryRange(downEntry.S), LAMBDA r :
        CertEnter([r.S EXCEPT !.certainty.requiredEntryRange = r.range],
                  PickEntry(upEntry, downEntry), e))))

\* the candles after this tick's updateOHLC of both sides
CandlesTicked(S) ==
    Bind(IF S.books.up # null THEN updateOHLC(S.certainty, "up", S.books.up.bestAsk)
         ELSE S.certainty, LAMBDA c1 :
        IF S.books.down # null THEN updateOHLC(c1, "down", S.books.down.bestAsk)
        ELSE c1)

\* createCertaintyMode().onOrderbooks
CertOnOrderbooks(S, e) ==
    Bind([S EXCEPT !.certainty = CandlesTicked(S)], LAMBDA S1 :
        IF S1.certainty.open # null THEN CertManagePosition(S1, S1.certainty.open, e)
        ELSE CertSeekEntry(S1, timeRemainingSec(S), e))

(***************************************************************************)
(* Lag mode (modes/lag.js)                                                 *)
(***************************************************************************)

\* the environment defaults of createLagMode. Dollars of spot are whole numbers, cents
\* are counted in hundredths (X100), a mark is doubled as everywhere, the budgets
\* are in money units and the risk cap in whole dollars. The penalties whose default is 0 are left out
LAG ==
    [MIN_USDC |-> 5 * MoneyScale, MAX_USDC |-> Max(5, 10) * MoneyScale,
     SPOT_MOVE_USD |-> 15, MIN_MARKET_MOVE2 |-> 10,
     MIN_PROFIT_CENTS_X100 |-> 100, TP_MIN_CENTS_X100 |-> 100, TP_MAX_CENTS_X100 |-> 1000,
     TP_X100_PER_USD |-> 5, MODEL_X100_PER_USD |-> 5,
     STOP_LOSS_PCT100 |-> 1, SL_MIN_CENTS_X100 |-> 100, SL_MAX_CENTS_X100 |-> 300,
     STOP_GRACE_MS |-> 3000, STOP_CONFIRM_TICKS |-> 2, MAX_RISK_USDC |-> 1,
     STOP_COOLDOWN_MS |-> 15000, COOLDOWN_MS |-> 1500, ENTRY_CONFIRM_TICKS |-> 2,
     FAST_SEC |-> 2, HISTORY_SEC |-> 120,
     EDGE_MIN_CENTS_X100 |-> 25, MAX_SPREAD_CENTS_X100 |-> 300,
     SPIKE_USD |-> 80, SPIKE_EXTRA_EDGE_CENTS_X100 |-> 50,
     FLOW_AGAINST_EXTRA_EDGE_CENTS_X100 |-> 25, FLOW_BONUS_EDGE_CENTS_X100 |-> 15,
     FEED_DISAGREE_USD_HARD |-> 150, BINANCE_MAX_AGE_MS |-> 5000, CHAINLINK_MAX_AGE_MS |-> 180000]

Abs(x) == IF x < 0 THEN 0 - x ELSE x

\* pushSpotSample: the sample's time is the feed's own timestamp
pushSpotSample(S) ==
    Bind(IF S.underlying.exchangeTimestampMs # NoTime THEN S.underlying.exchangeTimestampMs ELSE now,
         LAMBDA t :
    Bind(S.lag.spotHistory, LAMBDA hist :
        IF ~(S.underlying.price > 0) THEN S
        ELSE IF hist # <<>> /\ Abs(t - hist[Len(hist)].t) < 250 THEN S
        ELSE Bind(Append(hist, [t |-> t, p |-> S.underlying.price]), LAMBDA pushed :
             Bind(CHOOSE k \in 1..(Len(pushed) + 1) :
                      /\ k = Len(pushed) + 1 \/ ~(pushed[k].t < t - Max(5, LAG.HISTORY_SEC) * 1000)
                      /\ \A j \in 1..(k - 1) : pushed[j].t < t - Max(5, LAG.HISTORY_SEC) * 1000,
                  LAMBDA first :
                 [S EXCEPT !.lag.spotHistory = SubSeq(pushed, first, Len(pushed))]))))

\* feedAgeMs of a feed that carries its exchange timestamp
feedAgeMs(feed) == Max(0, now - feed.exchangeTimestampMs)

\* feedDisagreementUsd that measures nothing
feedDisagreementUsd_blind(S) == [ok |-> FALSE, usd |-> 0]

\* feedDisagreementUsd under RTDS_SOURCE = auto: [ok, usd], ok = FALSE for null
feedDisagreementUsd(S) ==
    Bind(S.underlying.binance_ws, LAMBDA bFeed :
    Bind(S.underlying.chainlink, LAMBDA cFeed :
        IF ~(bFeed.price > 0) \/ ~(cFeed.price > 0) THEN [ok |-> FALSE, usd |-> 0]
        ELSE IF bFeed.exchangeTimestampMs = NoTime \/ cFeed.exchangeTimestampMs = NoTime
             THEN [ok |-> FALSE, usd |-> 0]
        ELSE IF feedAgeMs(bFeed) > LAG.BINANCE_MAX_AGE_MS THEN [ok |-> FALSE, usd |-> 0]
        ELSE IF feedAgeMs(cFeed) > LAG.CHAINLINK_MAX_AGE_MS THEN [ok |-> FALSE, usd |-> 0]
        ELSE [ok |-> TRUE, usd |-> Abs(bFeed.price - cFeed.price)]))

\* spotDeltaOverSeconds: [ok, d], ok = FALSE for null
spotDeltaOverSeconds(hist, seconds) ==
    IF Len(hist) < 2 THEN [ok |-> FALSE, d |-> 0]
    ELSE Bind(hist[Len(hist)], LAMBDA last :
         Bind({i \in 1..Len(hist) : hist[i].t <= last.t - seconds * 1000}, LAMBDA priors :
             IF priors = {} THEN [ok |-> FALSE, d |-> 0]
             ELSE [ok |-> TRUE,
                   d |-> last.p - hist[CHOOSE i \in priors : \A j \in priors : j <= i].p]))

\* the books, token and fee of the side a lag trade is on
LagSide(S, side) ==
    IF side = "UP"
    THEN [tokenId |-> S.world.upTokenId, feeBps |-> S.world.upFeeBps, summary |-> S.books.up,
          asks |-> S.books.upAsksLevels, bids |-> S.books.upBidsLevels]
    ELSE [tokenId |-> S.world.downTokenId, feeBps |-> S.world.downFeeBps, summary |-> S.books.down,
          asks |-> S.books.downAsksLevels, bids |-> S.books.downBidsLevels]

\* orderbookPressure: null, or the spread; imbalance and micro-pressure only choose
\* between penalties that are 0
orderbookPressure(bidsLevels, asksLevels) ==
    IF Len(bidsLevels) = 0 \/ Len(asksLevels) = 0 THEN null
    ELSE IF ~(bidsLevels[1].price > 0) \/ ~(asksLevels[1].price > 0) THEN null
    ELSE [spreadCentsX100 |-> (asksLevels[1].price - bidsLevels[1].price) * 10]

\* breakevenDeltaCents, X100; exact at feeBps = 0, the fee of the markets followed here
breakevenDeltaCents(entryAsk01, feeBps) ==
    IF ~(entryAsk01 > 0) THEN 0
    ELSE (entryAsk01 * 2 * feeBps * 10) \div (10000 - feeBps)

\* profitCentsForEntry (dynamic), X100; lagContext is [spotDeltaUsd, sideMarketMove2] or null
profitCentsForEntry(lagContext) ==
    Bind(IF lagContext = null THEN 0 ELSE Abs(lagContext.spotDeltaUsd) * LAG.TP_X100_PER_USD,
         LAMBDA forecastCents :
    Bind(IF lagContext # null /\ lagContext.sideMarketMove2 > 0 THEN lagContext.sideMarketMove2 * 5 ELSE 0,
         LAMBDA marketMoveCents :
        Max(LAG.MIN_PROFIT_CENTS_X100,
            Max(LAG.TP_MIN_CENTS_X100,
                Min(LAG.TP_MAX_CENTS_X100, Max(0, forecastCents - marketMoveCents))))))

\* computeTargetSellPrice01: null, or the price as a fraction of price units
computeTargetSellPrice01(entryLimitPrice01, profitCents, feeBps) ==
    Bind(Rat(10 * entryLimitPrice01 * (10000 + feeBps) + 10000 * profitCents, 10 * (10000 - feeBps)),
         LAMBDA sRaw :
        IF RatLeq(Rat(990, 1), sRaw) THEN null
        ELSE Bind(IF RatLeq(sRaw, Rat(1, 1)) THEN Rat(1, 1) ELSE sRaw, LAMBDA s :
            IF RatLeq(s, Rat(entryLimitPrice01, 1)) THEN null ELSE s))

\* maxAchievableProfitCentsAtCap + 1e-6 < desiredProfitCents, at the cap of 99 cents
NoRoomToProfit(entryLimitPrice01, feeBps, desiredProfitCents) ==
    10 * (990 * (10000 - feeBps) - entryLimitPrice01 * (10000 + feeBps)) < 10000 * desiredProfitCents

\* computeStopPrice01 (strict), as a fraction of price units: the higher of the
\* percent stop and the dynamic stop, clamped to [0.001, 0.99]
computeStopPrice01(entryPrice01, desiredProfitCents) ==
    Bind(Rat(entryPrice01 * (100 - LAG.STOP_LOSS_PCT100), 100), LAMBDA stopPct :
    Bind(Max(2 * LAG.SL_MIN_CENTS_X100, Min(2 * LAG.SL_MAX_CENTS_X100, desiredProfitCents)),
         LAMBDA lossCentsDoubled :
    Bind(Rat(20 * entryPrice01 - lossCentsDoubled, 20), LAMBDA stopDyn :
    Bind(IF RatLeq(stopDyn, stopPct) THEN stopPct ELSE stopDyn, LAMBDA stop :
        IF RatLeq(Rat(990, 1), stop) THEN Rat(990, 1)
        ELSE IF RatLeq(stop, Rat(1, 1)) THEN Rat(1, 1)
        ELSE stop))))

\* netLossPerShareAtStopUsdc as a fraction n/d of price units, fees on both legs
netLossPerShareAtStopUsdc(entryPrice01, stopPrice01, feeBps) ==
    Bind(entryPrice01 * (10000 + feeBps) * stopPrice01.d - stopPrice01.n * (10000 - feeBps),
         LAMBDA n : Rat(Max(0, n), 10000 * stopPrice01.d))

\* the branches of evalLagSignal that end without an entry to suggest: signal, side,
\* no shares and no limit price; some of them also forget the lag context
NoSuggestion(S, signal, side, forget) ==
    [S EXCEPT !.lag.signal = signal, !.lag.suggestedSide = side,
              !.lag.suggestedShares = NoNum, !.lag.suggestedLimitPrice = NoNum,
              !.lag.lagContext = IF forget THEN null ELSE @]

\* evalLagSignal from the RR gate on: fill is the sweep of the risk-sized shares
LagSuggest(S, side, feeBps, sharesTarget, fill, desiredProfitCents) ==
    IF computeTargetSellPrice01(fill.maxPrice, desiredProfitCents, feeBps) = null
    THEN NoSuggestion(S, "LAG", side, FALSE)
    ELSE Bind(netLossPerShareAtStopUsdc(fill.maxPrice,
                                        computeStopPrice01(fill.maxPrice, desiredProfitCents), feeBps),
              LAMBDA lossPerShare :
        IF ~(lossPerShare.n > 0 /\ 2 * desiredProfitCents * lossPerShare.d >= 3 * 10 * lossPerShare.n)
        THEN NoSuggestion(S, "LAG", side, FALSE)
        ELSE IF NoRoomToProfit(fill.maxPrice, feeBps, desiredProfitCents)
        THEN NoSuggestion(S, "LAG", side, FALSE)
        ELSE [S EXCEPT !.lag.signal = "LAG", !.lag.suggestedSide = side,
                       !.lag.suggestedShares = sharesTarget,
                       !.lag.suggestedLimitPrice = fill.maxPrice])

\* sizing that takes the whole budget-sized fill whatever it can lose at the stop
LagSized_noRiskCap(S, side, sd, fillBudget, desiredProfitCents) ==
    IF fillBudget = null THEN NoSuggestion(S, "LAG", side, FALSE)
    ELSE Bind(costToBuySharesFromAsks(sd.asks, fillBudget.shares, sd.feeBps), LAMBDA fill :
         IF fill = null THEN NoSuggestion(S, "LAG", side, FALSE)
         ELSE LagSuggest(S, side, sd.feeBps, fillBudget.shares, fill, desiredProfitCents))

\* evalLagSignal from the risk-aware sizing on; LAG_MIN_RR = 1.5
LagSized(S, side, sd, fillBudget, desiredProfitCents) ==
    IF fillBudget = null THEN NoSuggestion(S, "LAG", side, FALSE)
    ELSE Bind(netLossPerShareAtStopUsdc(fillBudget.maxPrice,
                                        computeStopPrice01(fillBudget.maxPrice, desiredProfitCents),
                                        sd.feeBps),
              LAMBDA lossPerShare0 :
         Bind(IF lossPerShare0.n > 0
              THEN clampInt((LAG.MAX_RISK_USDC * PriceScale * lossPerShare0.d) \div lossPerShare0.n,
                            0, 1000000000)
              ELSE 0,
              LAMBDA riskShares :
         Bind(Max(0, Min(fillBudget.shares, riskShares)), LAMBDA sharesTarget :
             IF ~(sharesTarget >= 1) THEN NoSuggestion(S, "LAG", side, FALSE)
             ELSE Bind(costToBuySharesFromAsks(sd.asks, sharesTarget, sd.feeBps), LAMBDA fill :
                  IF fill = null THEN NoSuggestion(S, "LAG", side, FALSE)
                  ELSE LagSuggest(S, side, sd.feeBps, sharesTarget, fill, desiredProfitCents)))))

\* what the Binance trade tape adds to the edge an entry needs, X100
FlowEdge(flow) ==
    IF flow = "against" THEN LAG.FLOW_AGAINST_EXTRA_EDGE_CENTS_X100
    ELSE IF flow = "aligned" THEN 0 - LAG.FLOW_BONUS_EDGE_CENTS_X100
    ELSE 0

\* evalLagSignal from the microstructure gate on; the calibrator and the linear model
\* need 8 and 30 responses before they replace LAG_MODEL_CENTS_PER_USD
LagGated(S, flow, spike, spotDelta, side, sd, sideDelta) ==
    IF sd.feeBps = NoNum THEN NoSuggestion(S, "LAG", side, FALSE)
    ELSE Bind(IF cfg.paper THEN Min(S.paperBalance, LAG.MAX_USDC) ELSE LAG.MAX_USDC, LAMBDA maxUsdc :
        IF ~(maxUsdc >= LAG.MIN_USDC) THEN NoSuggestion(S, "LAG", side, FALSE)
        ELSE Bind(maxSharesForBudget(sd.asks, sd.feeBps, maxUsdc, 1), LAMBDA fillBudget :
             Bind(orderbookPressure(sd.bids, sd.asks), LAMBDA pressure :
             IF pressure = null THEN NoSuggestion(S, "LAG", side, FALSE)
             ELSE IF pressure.spreadCentsX100 > LAG.MAX_SPREAD_CENTS_X100
                  THEN NoSuggestion(S, "LAG", side, FALSE)
             ELSE IF Max(0, Abs(spotDelta) * LAG.MODEL_X100_PER_USD - Max(0, sideDelta) * 5)
                         < Max(0, breakevenDeltaCents(IF fillBudget = null THEN 0 ELSE fillBudget.maxPrice,
                                                      sd.feeBps)
                                  + pressure.spreadCentsX100 + LAG.EDGE_MIN_CENTS_X100
                                  + (IF spike THEN LAG.SPIKE_EXTRA_EDGE_CENTS_X100 ELSE 0)
                                  + FlowEdge(flow))
                  THEN NoSuggestion(S, "LAG", side, TRUE)
             ELSE Bind([spotDeltaUsd |-> spotDelta, sideMarketMove2 |-> Max(0, sideDelta)],
                       LAMBDA lagContext :
                      LagSized([S EXCEPT !.lag.lagContext = lagContext], side, sd, fillBudget,
                               profitCentsForEntry(lagContext))))))

\* evalLagSignal once a baseline exists: the spot move over the fast window, or since
\* the baseline when the history has no sample that old
LagEvaluated(S, flow) ==
    Bind(spotDeltaOverSeconds(S.lag.spotHistory, LAG.FAST_SEC), LAMBDA spotDeltaFast :
    Bind(IF spotDeltaFast.ok THEN spotDeltaFast.d ELSE S.underlying.price - S.lag.lastSpot,
         LAMBDA spotDelta :
    Bind(S.books.up.mark2 - S.lag.lastUpMid, LAMBDA upDelta :
    Bind(S.books.down.mark2 - S.lag.lastDownMid, LAMBDA downDelta :
        IF Max(Abs(upDelta), Abs(downDelta)) >= LAG.MIN_MARKET_MOVE2
        THEN NoSuggestion([S EXCEPT !.lag.lastSpot = S.underlying.price,
                                    !.lag.lastUpMid = S.books.up.mark2,
                                    !.lag.lastDownMid = S.books.down.mark2],
                          "none", "none", TRUE)
        ELSE IF ~(Abs(spotDelta) >= LAG.SPOT_MOVE_USD) THEN NoSuggestion(S, "none", "none", TRUE)
        ELSE LagGated(S, flow, spotDeltaFast.ok /\ Abs(spotDeltaFast.d) >= LAG.SPIKE_USD, spotDelta,
                      IF spotDelta > 0 THEN "UP" ELSE "DOWN",
                      LagSide(S, IF spotDelta > 0 THEN "UP" ELSE "DOWN"),
                      IF spotDelta > 0 THEN upDelta ELSE downDelta)))))

\* evalLagSignal
evalLagSignal(S0, flow) ==
    IF ~(S0.underlying.price > 0) THEN S0
    ELSE IF S0.books.up = null \/ S0.books.down = null THEN S0
    ELSE IF ~(S0.books.up.mark2 > 0) \/ ~(S0.books.down.mark2 > 0) THEN S0
    ELSE Bind(pushSpotSample(S0), LAMBDA S :
         Bind(feedDisagreementUsd(S), LAMBDA disagree :
             IF disagree.ok /\ disagree.usd > LAG.FEED_DISAGREE_USD_HARD
             THEN NoSuggestion(S, "LAG", "none", TRUE)
             ELSE IF S.world.endEpochSec # NoNum /\ 1000 * S.world.endEpochSec - now <= 60000
             THEN NoSuggestion(S, "none", "none", FALSE)
             ELSE IF S.lag.lastSpot = NoNum
             THEN [S EXCEPT !.lag.lastSpot = S.underlying.price,
                            !.lag.lastUpMid = S.books.up.mark2,
                            !.lag.lastDownMid = S.books.down.mark2]
             ELSE LagEvaluated(S, flow)))

\* confirmFokFilled of the answer to a FOK order: filled only when the order was
\* accepted and matched in full
confirmFokFilled(order) == order = "filled"

\* maybeExitLag from the close on: paper credit, or the live FOK sell
LagClose(S, open, tpTriggered, est, order) ==
    IF cfg.paper
    THEN [S EXCEPT !.paperBalance = @ + est.proceeds,
                   !.lag.lastStopAt = IF ~tpTriggered THEN now ELSE @,
                   !.lag.open = null]
    ELSE IF ~cfg.enableLive THEN S
    ELSE IF ~confirmFokFilled(order) THEN S
    ELSE [S EXCEPT !.lag.lastStopAt = IF ~tpTriggered THEN now ELSE @,
                   !.lag.open = null]

\* maybeExitLag from the stop counter on
LagExitChecked(S, open, sd, tpTriggered, stopNow, order) ==
    Bind([S EXCEPT !.lag.open.stopHits = IF stopNow THEN @ + 1 ELSE 0], LAMBDA S1 :
        IF ~tpTriggered /\ ~(stopNow /\ S1.lag.open.stopHits >= Max(1, LAG.STOP_CONFIRM_TICKS)) THEN S1
        ELSE Bind(proceedsFromSellingSharesToBids(
                      sd.bids, open.shares, open.feeBps,
                      IF tpTriggered THEN 0 - ((0 - open.sellPrice.n) \div open.sellPrice.d) ELSE 0),
                  LAMBDA est :
                 IF est = null THEN S1 ELSE LagClose(S1, S1.lag.open, tpTriggered, est, order)))

\* maybeExitLag; a price level is a whole number of price units, so selling at or
\* above sellPrice is selling at or above its ceiling
maybeExitLag(S, order) ==
    Bind(S.lag.open, LAMBDA open :
        IF open = null THEN S
        ELSE Bind(LagSide(S, open.side), LAMBDA sd :
            IF sd.tokenId # NoId /\ sd.tokenId # open.tokenId THEN S
            ELSE IF sd.summary = null THEN S
            ELSE IF ~(sd.summary.bestBid > 0) THEN S
            ELSE LagExitChecked(S, open, sd,
                                RatLeq(open.sellPrice, Rat(sd.summary.bestBid, 1)),
                                /\ RatLeq(IF sd.summary.mark2 > 0 THEN Rat(sd.summary.mark2, 2)
                                          ELSE Rat(sd.summary.bestBid, 1),
                                          open.stopPrice)
                                /\ now - open.openedAt >= LAG.STOP_GRACE_MS,
                                order)))

\* the position maybeExecuteLag opens
LagOpened(S, side, sd, shares, limitPrice, targetSell, stopPrice) ==
    [S EXCEPT !.lag.open = [side |-> side, tokenId |-> sd.tokenId, shares |-> shares,
                            entryPrice |-> limitPrice, sellPrice |-> targetSell,
                            stopPrice |-> stopPrice, feeBps |-> sd.feeBps,
                            endEpochSec |-> S.world.endEpochSec, marketId |-> S.world.marketId,
                            stopHits |-> 0, openedAt |-> now],
              !.lag.lastTradeAt = now]

\* executeLiveLagTrade and confirmFokFilled: was the entry order filled
executeLiveLagTrade(S, sd, shares, limitPrice, order) ==
    /\ liveCanSpendUsdc(S, shares * SizeScale * limitPrice * (10000 + sd.feeBps) * BpsCostUnit) = "ok"
    /\ confirmFokFilled(order)

\* maybeExecuteLag from lastSignalAt on
LagEnter(S, side, sd, shares, limitPrice, targetSell, stopPrice, order) ==
    IF cfg.paper
    THEN Bind(costToBuySharesFromAsks(sd.asks, shares, sd.feeBps), LAMBDA fill :
             IF fill = null THEN S
             ELSE IF fill.cost > S.paperBalance THEN S
             ELSE LagOpened([S EXCEPT !.paperBalance = @ - fill.cost],
                            side, sd, shares, limitPrice, targetSell, stopPrice))
    ELSE IF ~cfg.enableLive THEN S
    ELSE IF ~executeLiveLagTrade(S, sd, shares, limitPrice, order) THEN S
    ELSE LagOpened(S, side, sd, shares, limitPrice, targetSell, stopPrice)

\* maybeExecuteLag once the confirmation count is reached, without the cool-down
\* after a stop-out
LagConfirmed_noStopCooldown(S, side, sd, shares, limitPrice, desiredProfitCents, order) ==
    IF S.world.endEpochSec # NoNum /\ 1000 * S.world.endEpochSec - now <= 60000 THEN S
    ELSE IF now - (IF S.lag.lastTradeAt = NoTime THEN 0 ELSE S.lag.lastTradeAt) < LAG.COOLDOWN_MS THEN S
    ELSE IF ~(shares > 0) \/ ~(limitPrice > 0) THEN S
    ELSE IF sd.tokenId = NoId THEN S
    ELSE IF sd.feeBps = NoNum THEN S
    ELSE IF ~(limitPrice < 990) THEN S
    ELSE IF NoRoomToProfit(limitPrice, sd.feeBps, desiredProfitCents) THEN S
    ELSE Bind(computeTargetSellPrice01(limitPrice, desiredProfitCents, sd.feeBps), LAMBDA targetSell :
         IF targetSell = null THEN S
         ELSE LagEnter([S EXCEPT !.lag.lastSignalAt = now], side, sd, shares, limitPrice, targetSell,
                       computeStopPrice01(limitPrice, desiredProfitCents), order))

\* maybeExecuteLag once the confirmation count is reached
LagConfirmed(S, side, sd, shares, limitPrice, desiredProfitCents, order) ==
    IF S.world.endEpochSec # NoNum /\ 1000 * S.world.endEpochSec - now <= 60000 THEN S
    ELSE IF now - (IF S.lag.lastTradeAt = NoTime THEN 0 ELSE S.lag.lastTradeAt) < LAG.COOLDOWN_MS THEN S
    ELSE IF S.lag.lastStopAt # NoTime /\ now - S.lag.lastStopAt < LAG.STOP_COOLDOWN_MS THEN S
    ELSE IF ~(shares > 0) \/ ~(limitPrice > 0) THEN S
    ELSE IF sd.tokenId = NoId THEN S
    ELSE IF sd.feeBps = NoNum THEN S
    ELSE IF ~(limitPrice < 990) THEN S
    ELSE IF NoRoomToProfit(limitPrice, sd.feeBps, desiredProfitCents) THEN S
    ELSE Bind(computeTargetSellPrice01(limitPrice, desiredProfitCents, sd.feeBps), LAMBDA targetSell :
         IF targetSell = null THEN S
         ELSE LagEnter([S EXCEPT !.lag.lastSignalAt = now], side, sd, shares, limitPrice, targetSell,
                       computeStopPrice01(limitPrice, desiredProfitCents), order))

\* maybeExecuteLag
maybeExecuteLag(S, order) ==
    IF S.lag.open # null THEN S
    ELSE IF S.lag.signal # "LAG" THEN S
    ELSE IF S.lag.suggestedSide = "none" \/ ~(S.lag.suggestedLimitPrice > 0) THEN S
    ELSE IF \/ S.lag.pending = null
            \/ S.lag.pending.side # S.lag.suggestedSide
            \/ S.lag.pending.px # S.lag.suggestedLimitPrice
    THEN [S EXCEPT !.lag.pending =
                      [side |-> S.lag.suggestedSide, px |-> S.lag.suggestedLimitPrice, hits |-> 1]]
    ELSE Bind([S EXCEPT !.lag.pending.hits = @ + 1], LAMBDA S1 :
         IF S1.lag.pending.hits < Max(1, LAG.ENTRY_CONFIRM_TICKS) THEN S1
         ELSE LagConfirmed(S1, S1.lag.suggestedSide, LagSide(S1, S1.lag.suggestedSide),
                           S1.lag.suggestedShares, S1.lag.suggestedLimitPrice,
                           profitCentsForEntry(S1.lag.lagContext), order))

\* a handler that takes the interval to end two minutes later than it does
LagOnOrderbooks_late(S, e) ==
    Bind(maybeExecuteLag(maybeExitLag(evalLagSignal([S EXCEPT !.world.endEpochSec = @ + 120], e.flow),
                                      e.order2), e.order),
         LAMBDA R : [R EXCEPT !.world.endEpochSec = S.world.endEpochSec])

\* createLagMode().onOrderbooks; e.order2 answers the exit order, e.order the entry order
LagOnOrderbooks(S, e) ==
    maybeExecuteLag(maybeExitLag(evalLagSignal(S, e.flow), e.order2), e.order)

(***************************************************************************)
(* Engine loops (engine.js)                                                *)
(***************************************************************************)

\* what Gamma finds for the candidates [cur, prev, next]: the first slug that
\* answers, or none of them
Founds == IF cfg.mode = "arbitrage" THEN {"cur", "prev", "next", "none"} ELSE {"cur"}

refreshCurrentIntervalMarket(S, found) ==
    LET intervalStart == getIntervalStartEpoch(nowSec)
        startSec == IF found = "cur" THEN intervalStart
                    ELSE IF found = "prev" THEN intervalStart - INTERVAL_SECONDS
                    ELSE intervalStart + INTERVAL_SECONDS
        id == MarketOfInterval(startSec)
        changed == S.world.conditionId # id
    IN IF S.world.startEpochSec = intervalStart /\ S.world.marketId # NoId THEN S
       ELSE IF found = "none"
            THEN [S EXCEPT !.world.startEpochSec = intervalStart,
                           !.world.endEpochSec = intervalStart + INTERVAL_SECONDS,
                           !.world.marketId = NoId,
                           !.world.conditionId = NoId]
       ELSE [S EXCEPT !.world.startEpochSec = startSec,
                      !.world.endEpochSec = startSec + INTERVAL_SECONDS,
                      !.world.marketId = id,
                      !.world.conditionId = id,
                      !.world.upTokenId = IF changed THEN NoId ELSE @,
                      !.world.downTokenId = IF changed THEN NoId ELSE @,
                      !.books.up = IF changed THEN null ELSE @,
                      !.books.down = IF changed THEN null ELSE @]

\* a fee rate as the API sends it: num/den
RawFees == {[num |-> 0 - 1, den |-> 1], [num |-> 0, den |-> 1], [num |-> 1, den |-> 100]}

normalizeFeeBps(raw) ==
    IF raw.num < 0 THEN NoNum
    ELSE IF raw.num > 0 /\ raw.num < raw.den THEN (raw.num * 10000) \div raw.den
    ELSE raw.num \div raw.den

\* answers of clobClient.getMarket and getFeeRateBps
TokenAnswers ==
    [tok : (IF cfg.mode = "arbitrage" THEN {"fail", "feeThrow"} ELSE {"fail"}),
     upFee : {[num |-> 0, den |-> 1]}, downFee : {[num |-> 0, den |-> 1]}]
    \cup {[tok |-> "ok", upFee |-> f, downFee |-> f] : f \in (IF cfg.mode = "arbitrage" THEN RawFees ELSE {[num |-> 0, den |-> 1]})}

\* the answers a lag run is followed under: the exchange knows the market and the allowance
Asked(answers) ==
    IF cfg.mode # "lag" THEN answers
    ELSE {a \in answers : IF "tok" \in DOMAIN a THEN a.tok = "ok" ELSE a.allowance # NoNum}

NeedsTokens(S) ==
    S.world.conditionId # NoId /\ (S.world.upTokenId = NoId \/ S.world.downTokenId = NoId)

resolveOutcomeTokenIds(S, t) ==
    IF S.world.conditionId = NoId THEN S
    ELSE IF S.world.upTokenId # NoId /\ S.world.downTokenId # NoId THEN S
    ELSE IF t.tok = "fail" THEN S
    ELSE [S EXCEPT !.world.upTokenId = 10 * S.world.conditionId + 1,
                   !.world.downTokenId = 10 * S.world.conditionId + 2,
                   !.world.upFeeBps = IF t.tok = "feeThrow" THEN NoNum ELSE normalizeFeeBps(t.upFee),
                   !.world.downFeeBps = IF t.tok = "feeThrow" THEN NoNum ELSE normalizeFeeBps(t.downFee)]

\* resolveGammaWinnerForMarketId
resolveGammaWinnerForMarketId(marketId, winner) == IF marketId = NoId THEN "none" ELSE winner

\* the certainty half of maybeSettlePaperPositions, paying whichever side won
SettleCertainty_paysLoser(S1, certOpen, winner3) ==
    IF certOpen # null /\ nowSec >= certOpen.endEpochSec /\ winner3 # "none"
    THEN ExchangeExited(
             [S1 EXCEPT !.paperBalance = @ + certOpen.shares * MoneyScale,
                        !.certainty.trades = TradeClosed(@, certOpen.tradeId, "none", "SETTLED"),
                        !.certainty.open = null])
    ELSE S1

\* the certainty half of maybeSettlePaperPositions
SettleCertainty(S1, certOpen, winner3) ==
    IF certOpen # null /\ nowSec >= certOpen.endEpochSec /\ winner3 # "none"
    THEN ExchangeExited(
             [S1 EXCEPT !.paperBalance =
                            @ + (IF (winner3 = "UP" /\ certOpen.side = "up")
                                     \/ (winner3 = "DOWN" /\ certOpen.side = "down")
                                 THEN certOpen.shares * MoneyScale ELSE 0),
                        !.certainty.trades = TradeClosed(@, certOpen.tradeId, "none", "SETTLED"),
                        !.certainty.open = null])
    ELSE S1

\* the arbitrage half of maybeSettlePaperPositions
SettleStraddle(S, open, winner) ==
    IF open # null /\ nowSec >= open.endEpochSec
       /\ resolveGammaWinnerForMarketId(open.marketId, winner) # "none"
    THEN ExchangeExited([S EXCEPT !.paperBalance = @ + open.sharesPerSide * MoneyScale,
                                  !.arb.open = null])
    ELSE S

\* the lag half of maybeSettlePaperPositions
SettleLag(S, lagOpen, winner2) ==
    IF lagOpen # null /\ nowSec >= lagOpen.endEpochSec /\ winner2 # "none"
    THEN [S EXCEPT !.paperBalance = @ + (IF winner2 = lagOpen.side THEN lagOpen.shares * MoneyScale
                                         ELSE 0),
                   !.lag.open = null]
    ELSE S

\* maybeSettlePaperPositions
maybeSettlePaperPositions(S, winner) ==
    IF ~cfg.paper THEN S
    ELSE SettleCertainty(SettleLag(SettleStraddle(S, S.arb.open, winner), S.lag.open,
                                   IF S.lag.open = null THEN "none"
                                   ELSE resolveGammaWinnerForMarketId(S.lag.open.marketId, winner)),
                         S.certainty.open,
                         IF S.certainty.open = null THEN "none"
                         ELSE resolveGammaWinnerForMarketId(S.certainty.open.marketId, winner))

\* a position whose settlement asks Gamma for the winner now
SettlementDue(S) ==
    /\ cfg.paper
    /\ \/ S.arb.open # null /\ nowSec >= S.arb.open.endEpochSec
       \/ S.lag.open # null /\ nowSec >= S.lag.open.endEpochSec
       \/ S.certainty.open # null /\ nowSec >= S.certainty.open.endEpochSec

\* a refresh that hands the strategy books with both outcomes above 0.90
BooksFetched_noSanity(S1, fetch) ==
    IF S1.world.upTokenId = NoId \/ S1.world.downTokenId = NoId THEN [S |-> S1, run |-> FALSE]
    ELSE IF ~fetch.ok THEN [S |-> S1, run |-> FALSE]
    ELSE Bind(sortBidsAsksFromBook(fetch.upBook), LAMBDA upSides :
         Bind(sortBidsAsksFromBook(fetch.downBook), LAMBDA downSides :
         Bind(summarizeOrderbook(fetch.upBook), LAMBDA up :
         Bind(summarizeOrderbook(fetch.downBook), LAMBDA down :
             [S |-> [S1 EXCEPT !.books = [upAsksLevels |-> upSides.asks, upBidsLevels |-> upSides.bids,
                                          downAsksLevels |-> downSides.asks,
                                          downBidsLevels |-> downSides.bids,
                                          up |-> up, down |-> down]],
              run |-> up.bestAsk > 0 /\ down.bestAsk > 0]))))

\* refreshOrderbooks from the fetch on; S1 carries the resolved token ids
BooksFetched(S1, fetch) ==
    IF S1.world.upTokenId = NoId \/ S1.world.downTokenId = NoId THEN [S |-> S1, run |-> FALSE]
    ELSE IF ~fetch.ok THEN [S |-> S1, run |-> FALSE]
    ELSE Bind(sortBidsAsksFromBook(fetch.upBook), LAMBDA upSides :
         Bind(sortBidsAsksFromBook(fetch.downBook), LAMBDA downSides :
         Bind(summarizeOrderbook(fetch.upBook), LAMBDA up :
         Bind(summarizeOrderbook(fetch.downBook), LAMBDA down :
             [S |-> [S1 EXCEPT !.books = [upAsksLevels |-> upSides.asks, upBidsLevels |-> upSides.bids,
                                          downAsksLevels |-> downSides.asks,
                                          downBidsLevels |-> downSides.bids,
                                          up |-> up, down |-> down]],
              run |-> /\ up.bestAsk > 0 /\ down.bestAsk > 0
                      /\ ~(up.bestAsk > 900 /\ down.bestAsk > 900)]))))

\* refreshOrderbooks up to the call of the mode: [S, run]
refreshOrderbooks(S, t, fetch) ==
    IF S.world.conditionId = NoId THEN [S |-> S, run |-> FALSE]
    ELSE BooksFetched(resolveOutcomeTokenIds(S, t), fetch)

\* booksLoop body
booksLoop(S, winner, t, fetch, e) ==
    Bind(refreshOrderbooks(maybeSettlePaperPositions(S, winner), t, fetch), LAMBDA r :
        IF ~r.run THEN r.S
        ELSE IF cfg.mode = "arbitrage" THEN ArbOnOrderbooks(r.S, e.order, e.order2)
        ELSE IF cfg.mode = "lag" THEN LagOnOrderbooks(r.S, e)
        ELSE CertOnOrderbooks(r.S, e))

\* pickBestUnderlyingFeed: the feed of least age among those that have a price; both
\* are connected and without error, and binance_ws is the first key
pickBestUnderlyingFeed(u) ==
    IF u.binance_ws.price > 0
       /\ (~(u.chainlink.price > 0) \/ now - u.binance_ws.exchangeTimestampMs
                                          <= now - u.chainlink.exchangeTimestampMs)
    THEN u.binance_ws
    ELSE IF u.chainlink.price > 0 THEN u.chainlink
    ELSE null

\* the Binance 'message' handler for the trade that arrived since the last poll
\* (tick = NoNum when none did), then underlyingLoop under RTDS_SOURCE = auto:
\* fetchUnderlyingChainlink (answer = NoNum when it throws; the round was written
\* half a minute ago), pickBestUnderlyingFeed, applyUnderlyingFromFeed
underlyingLoop(u, tick, answer) ==
    Bind([u EXCEPT !.binance_ws = IF tick = NoNum THEN @
                                  ELSE [price |-> tick, exchangeTimestampMs |-> now],
                   !.chainlink = IF answer = NoNum THEN @
                                 ELSE [price |-> answer, exchangeTimestampMs |-> now - 30000]],
         LAMBDA u1 :
    Bind(pickBestUnderlyingFeed(u1), LAMBDA best :
        IF best = null THEN u1
        ELSE [u1 EXCEPT !.price = best.price, !.exchangeTimestampMs = best.exchangeTimestampMs]))

(***************************************************************************)
(* The running engine: inputs, initial state, actions                      *)
(***************************************************************************)

\* seconds the engine is followed for in arbitrage and in certainty mode, and the
\* number of clock steps it is followed for in lag mode
ArbElapsedSec == 4
CertElapsedSec == 13
LagTicks == 6

\* Date.now() at start-up: a few seconds before the interval that began at 900 s ends,
\* and in lag mode well before it
StartTime(mode) ==
    IF mode = "arbitrage" THEN 1796000 ELSE IF mode = "certainty" THEN 1787000 ELSE 1000000

\* Date.now() at the start of a lag run that holds a position over the end of the
\* interval that began at 900 s: an entry is still admitted 2 s after start-up
RollStart == 1000 * (2 * INTERVAL_SECONDS - 63)

\* ms after start-up of the k-th instant the run is looked at. In lag mode the look
\* is taken at 0, 1, 2, 5, 6, 7 and 22 s and every second from then on: the grace period
\* of a stop and the cool-down after one pass between two looks. The run across the
\* end of the interval is looked at at 0, 1, 2 and 61 s and, the interval over, at 63 s
\* and every second from then on
Instant(k) ==
    IF cfg.mode # "lag" THEN 1000 * k
    ELSE IF cfg.startedAt = RollStart THEN (IF k <= 2 THEN 1000 * k ELSE IF k = 3 THEN 61000
                                            ELSE 1000 * (k + 59))
    ELSE IF k <= 2 THEN 1000 * k
    ELSE IF k <= 5 THEN 1000 * (k + 2)
    ELSE 1000 * (k + 16)

Level(price, size) == [price |-> price, size |-> size]
Book(bids, asks) == [bids |-> bids, asks |-> asks]
Fetch(upBook, downBook) == [ok |-> TRUE, upBook |-> upBook, downBook |-> downBook]
FetchError == [ok |-> FALSE, upBook |-> Book(<<>>, <<>>), downBook |-> Book(<<>>, <<>>)]

\* one outcome token's book around a price; levels as the CLOB sends them, not best-first
Quiet(bid, ask) == Book(<<Level(bid - 10, 2), Level(bid, 2)>>, <<Level(ask + 10, 2), Level(ask, 2)>>)
Thin(bid, ask) == Book(<<Level(bid, 2)>>, <<Level(ask, 2)>>)

\* what the two getOrderBook calls can answer; in the third certainty book the best
\* bid holds half a share and the next one the other half; in the second lag book,
\* followed while a lag position is open, nobody bids for DOWN
Fetches ==
    IF cfg.mode = "arbitrage"
    THEN {Fetch(Quiet(390, 400), Book(<<Level(540, 4)>>, <<Level(550, 4)>>)),
          Fetch(Book(<<>>, <<Level(499, 6)>>), Book(<<>>, <<Level(499, 6)>>)),
          Fetch(Thin(490, 500), Thin(510, 520)),
          Fetch(Thin(940, 950), Thin(940, 950)),
          FetchError}
    ELSE IF cfg.mode = "lag"
    THEN {Fetch(Thin(500, 510), Thin(480, 490))}
         \cup (IF lag.open # null THEN {Fetch(Thin(500, 510), Book(<<>>, <<Level(490, 2)>>))} ELSE {})
    ELSE {Fetch(Quiet(790, 800), Thin(240, 250)),
          Fetch(Thin(840, 850), Thin(240, 250)),
          Fetch(Book(<<Level(744, 1), Level(745, 1), Level(700, 4)>>, <<Level(755, 4)>>),
                Thin(240, 250)),
          Fetch(Thin(970, 980), Thin(240, 250)),
          FetchError}
         \cup (IF certainty.open # null /\ certainty.stopConfirm > 0
               THEN {Fetch(Book(<<Level(745, 1), Level(740, 1)>>, <<Level(755, 4)>>), Thin(240, 250))}
               ELSE {})

\* the account holds what a straddle of three shares, or one certainty share, costs,
\* and in lag mode more than its one share
LiveFunds == IF cfg.mode = "certainty" THEN MoneyScale ELSE 3 * MoneyScale

\* answers of getBalanceAllowance: [ok, balance, allowance]; ok = FALSE is a rejected call
CollateralAnswers ==
    {[ok |-> TRUE, balance |-> MoneyScale \div 4, allowance |-> 3 * MoneyScale],
     [ok |-> TRUE, balance |-> LiveFunds, allowance |-> NoNum],
     [ok |-> TRUE, balance |-> LiveFunds, allowance |-> 3 * MoneyScale]}

NoAnswer == [ok |-> FALSE, balance |-> NoNum, allowance |-> NoNum]

\* what getBinanceFlow makes of the trade tape: null, or a flow with or against the side
Flows == {"none", "against"}

\* what the exchange answers during one handler run: the outcome of the (first) order,
\* of the second order, the answer to a synchronous getBalanceAllowance, and what the
\* trade tape shows
QuietEnv == [order |-> "filled", order2 |-> "filled", refresh |-> NoAnswer, flow |-> "none"]
ThrowEnv == [order |-> "throw", order2 |-> "throw", refresh |-> NoAnswer, flow |-> "none"]

Configs(mode) ==
    [mode : {mode}, paper : {TRUE}, enableLive : {FALSE}, startedAt : {StartTime(mode)}]
    \cup [mode : {mode}, paper : {FALSE}, enableLive : BOOLEAN, startedAt : {StartTime(mode)}]

\* state as the module builds it; certainty as ensureTradeState completes it. A paper
\* run of the lag mode is given INITIAL_BALANCE = 10: with the default of one dollar
\* its budget stays below LAG_MIN_USDC and it never trades
EngineInitOf(configs) ==
    /\ inp = NoInput
    /\ out = NoOutput
    /\ cfg \in configs
    /\ now = cfg.startedAt
    /\ paperBalance = (IF cfg.mode = "lag" THEN 10 ELSE 1) * INITIAL_BALANCE
    /\ world = [startEpochSec |-> NoNum, endEpochSec |-> NoNum, marketId |-> NoId, conditionId |-> NoId,
                upTokenId |-> NoId, downTokenId |-> NoId, upFeeBps |-> NoNum, downFeeBps |-> NoNum]
    /\ books = [upAsksLevels |-> <<>>, upBidsLevels |-> <<>>, downAsksLevels |-> <<>>,
                downBidsLevels |-> <<>>, up |-> null, down |-> null]
    /\ collateral = [balanceUsdc |-> NoNum, allowanceUsdc |-> NoNum]
    /\ arb = [open |-> null, lastTradeAt |-> NoTime, suggestedShares |-> NoNum, suggestedCost |-> NoNum]
    /\ certainty =
          [open |-> null, lastTradeAt |-> NoTime, tradeSeq |-> 0,
           candles |-> [up |-> [current |-> null, history |-> <<>>],
                        down |-> [current |-> null, history |-> <<>>]],
           intervalState |-> [marketId |-> NoId, lastExitType |-> "none", entryCount |-> 0,
                              lastStopLossExitPrice |-> null, requireReentryUntilResolved |-> FALSE],
           confirm |-> [side |-> "none", ticks |-> 0], stopConfirm |-> 0, tpConfirm |-> 0,
           requiredEntryRange |-> null, trades |-> <<>>]
    /\ underlying = [price |-> 0, exchangeTimestampMs |-> NoTime,
                     binance_ws |-> [price |-> NoNum, exchangeTimestampMs |-> NoTime],
                     chainlink |-> [price |-> NoNum, exchangeTimestampMs |-> NoTime]]
    /\ lag = [lastSpot |-> NoNum, lastUpMid |-> NoNum, lastDownMid |-> NoNum, lastSignalAt |-> NoTime,
              signal |-> "none", suggestedSide |-> "none", suggestedShares |-> NoNum,
              suggestedLimitPrice |-> NoNum, lagContext |-> null, pending |-> null, open |-> null,
              lastTradeAt |-> NoTime, lastStopAt |-> NoTime, spotHistory |-> <<>>]
    /\ phase = "market"
    /\ exch = [up |-> 0, down |-> 0, entries |-> 0, endEpochSec |-> 0, actualExitPrice |-> null]
    /\ loops = NoOutput

\* the answers that can make a difference to this run of booksLoop
OrderEnvs(winner, t, fetch) ==
    IF cfg.mode = "lag"
    THEN UNION {IF \/ cfg.paper \/ ~cfg.enableLive
                   \/ booksLoop(Cur, winner, t, fetch, [QuietEnv EXCEPT !.flow = f])
                          = booksLoop(Cur, winner, t, fetch, [ThrowEnv EXCEPT !.flow = f])
                THEN {[QuietEnv EXCEPT !.flow = f]}
                ELSE [order : OrderOutcomes, order2 : OrderOutcomes, refresh : {NoAnswer}, flow : {f}]
                : f \in Flows}
    ELSE IF cfg.paper \/ ~cfg.enableLive THEN {QuietEnv}
    ELSE IF cfg.mode = "certainty" /\ collateral.balanceUsdc # NoNum /\ collateral.allowanceUsdc = NoNum
         THEN [order : OrderOutcomes, order2 : {"filled"}, refresh : CollateralAnswers \cup {NoAnswer},
               flow : {"none"}]
    ELSE IF booksLoop(Cur, winner, t, fetch, QuietEnv) = booksLoop(Cur, winner, t, fetch, ThrowEnv)
         THEN {QuietEnv}
    ELSE [order : OrderOutcomes,
          order2 : IF cfg.mode = "arbitrage" THEN OrderOutcomes ELSE {"filled"},
          refresh : {NoAnswer}, flow : {"none"}]

\* the timers of run(): marketLoop, underlyingLoop, booksLoop and collateralLoop are
\* started in this order after one warm-up call of each, so at an instant at which
\* several are due they run in this order; underlyingLoop (polled every second) and
\* booksLoop (polled every 100 ms) run once in every clock step. The spot is read by the
\* lag mode only, and only there is underlyingLoop followed
MARKET_REFRESH_MS == 2000
BALANCE_POLL_MS == 10000
Due(periodMs) == (now - cfg.startedAt) % periodMs = 0

\* the clock moves on to the next instant
Advance ==
    /\ phase = "clock" \/ (phase = "collateral" /\ ~Due(BALANCE_POLL_MS))
    /\ \E k \in 1..(IF cfg.mode = "arbitrage" THEN ArbElapsedSec
                     ELSE IF cfg.mode = "certainty" THEN CertElapsedSec ELSE LagTicks) :
          /\ now = cfg.startedAt + Instant(k - 1)
          /\ now' = cfg.startedAt + Instant(k)
    /\ phase' = "market"
    /\ UNCHANGED <<loops, inp, out, cfg, paperBalance, world, books, collateral, arb, certainty, underlying, lag,
                   exch>>

\* marketLoop
MarketLoop ==
    /\ phase = "market" /\ Due(MARKET_REFRESH_MS)
    /\ \E found \in Founds :
       \E S1 \in {refreshCurrentIntervalMarket(Cur, found)} :
       \E t \in (IF NeedsTokens(S1) THEN Asked(TokenAnswers)
                 ELSE {CHOOSE x \in TokenAnswers : x.tok = "fail"}) :
          Becomes(resolveOutcomeTokenIds(S1, t))
    /\ phase' = IF cfg.mode = "lag" THEN "underlying" ELSE "books"
    /\ UNCHANGED <<loops, inp, out, now, cfg>>

\* the trade the Binance ticker delivered since the last poll: none (NoNum), or one at
\* the other of two prices that lie more than LAG_SPOT_MOVE_USD apart
BinanceTicks == {NoNum} \cup ({100000, 100058} \ {underlying.binance_ws.price})

\* the Chainlink round: near Binance or, up to the first lag trade, further from it
\* than LAG_FEED_DISAGREE_USD_HARD
ChainlinkAnswers == {100000} \cup (IF lag.lastTradeAt = NoTime THEN {99800} ELSE {})

\* underlyingLoop, with the trade the ticker delivered since the last poll
UnderlyingLoop ==
    /\ cfg.mode = "lag"
    /\ phase = "underlying" \/ (phase = "market" /\ ~Due(MARKET_REFRESH_MS))
    /\ \E tick \in BinanceTicks : \E answer \in ChainlinkAnswers :
          underlying' = underlyingLoop(underlying, tick, answer)
    /\ phase' = "books"
    /\ UNCHANGED <<loops, inp, out, now, cfg, paperBalance, world, books, collateral, arb, certainty, lag, exch>>

\* booksLoop
BooksLoop ==
    /\ phase = "books" \/ (cfg.mode # "lag" /\ phase = "market" /\ ~Due(MARKET_REFRESH_MS))
    /\ \E winner \in (IF SettlementDue(Cur) THEN Winners ELSE {"none"}) :
       \E t \in (IF NeedsTokens(Cur) THEN Asked(TokenAnswers)
                 ELSE {CHOOSE x \in TokenAnswers : x.tok = "fail"}) :
       \E fetch \in Fetches :
       \E e \in OrderEnvs(winner, t, fetch) :
          Becomes(booksLoop(Cur, winner, t, fetch, e))
    /\ phase' = "collateral"
    /\ UNCHANGED <<loops, inp, out, now, cfg>>

\* collateralLoop
CollateralLoop ==
    /\ phase = "collateral" /\ Due(BALANCE_POLL_MS)
    /\ IF cfg.paper THEN UNCHANGED collateral
       ELSE \E a \in Asked(CollateralAnswers) :
               collateral' = [balanceUsdc |-> a.balance, allowanceUsdc |-> a.allowance]
    /\ phase' = "clock"
    /\ UNCHANGED <<loops, inp, out, now, cfg, paperBalance, world, books, arb, certainty, underlying, lag, exch>>

\* the market of the shares held at the exchange resolves and they are redeemed
ExchangeResolve ==
    /\ ~cfg.paper
    /\ exch.up + exch.down > 0
    /\ nowSec >= exch.endEpochSec
    /\ exch' = [exch EXCEPT !.up = 0, !.down = 0, !.entries = 0]
    /\ UNCHANGED <<loops, inp, out, now, cfg, paperBalance, world, books, collateral, arb, certainty, underlying,
                   lag, phase>>

EngineInit(mode) == EngineInitOf(Configs(mode))

EngineNext == Advance \/ MarketLoop \/ CollateralLoop \/ BooksLoop \/ ExchangeResolve

SpecArb == EngineInit("arbitrage") /\ [][EngineNext]_vars
SpecCert == EngineInit("certainty") /\ [][EngineNext]_vars

\* Date.now() at the start of a certainty run whose market loop is due at the end of
\* the interval that began at 900 s
CertRollStart == 1000 * (2 * INTERVAL_SECONDS - 12)

\* the certainty mode started twelve seconds before the end of the interval
SpecCertRoll ==
    EngineInitOf({[c EXCEPT !.startedAt = CertRollStart] : c \in Configs("certainty")})
       /\ [][EngineNext]_vars

\* in lag mode no share is followed to the exchange and none is redeemed
LagNext == Advance \/ MarketLoop \/ UnderlyingLoop \/ BooksLoop \/ CollateralLoop
SpecLag == EngineInit("lag") /\ [][LagNext]_vars

\* the lag mode started a minute before the end of the interval
SpecLagRoll == EngineInitOf({[c EXCEPT !.startedAt = RollStart] : c \in Configs("lag")}) /\ [][LagNext]_vars

(***************************************************************************)
(* The five polling loops as interleaved executions (engine.js)            *)
(***************************************************************************)

\* the setInterval timers of startEngine
Cadences == {"market", "underlying", "books", "quotes", "collateral"}

\* executions of one loop that can be in flight before a further firing is left out
MaxRuns == 2

\* the last step was neither a firing that was dropped nor a hand-over of books
NoMark == [cadence |-> "none", did |-> "none"]

\* state as the loops see it. A market, its condition id, its pair of token ids, the
\* fees of those tokens and the books of those tokens are named by the number of the
\* interval the market belongs to, 0 for null; the spot and the collateral by the
\* number of the answer that wrote them. runs[c] holds the executions of loop c that
\* wait at an await: where, and what the call was made for; last tells a dropped
\* firing and a hand-over of books to the strategy from the other steps
LoopsIdle ==
    [inFlight |-> [c \in Cadences |-> FALSE], runs |-> [c \in Cadences |-> <<>>],
     epoch |-> 1, interval |-> 0, market |-> 0, tokens |-> 0, fees |-> 0, orderbooks |-> 0,
     underlying |-> 0, collateral |-> 0, last |-> NoMark]

\* the finally block of a loop: the execution is over, the flag is cleared
Finished(l, c, i) ==
    [l EXCEPT !.inFlight[c] = FALSE,
              !.runs[c] = SubSeq(@, 1, i - 1) \o SubSeq(@, i + 1, Len(@))]

\* the execution waits for the answer to a call
Awaits(l, c, i, pc, asked) == [l EXCEPT !.runs[c][i] = [pc |-> pc, asked |-> asked]]

\* what follows resolveOutcomeTokenIds in marketLoop, refreshOrderbooks and quotesLoop
AfterResolve(l, c, i) ==
    IF c = "market" THEN Finished(l, c, i)
    ELSE IF l.tokens = 0 THEN Finished(l, c, i)
    ELSE Awaits(l, c, i, IF c = "books" THEN "fetch" ELSE "quotes", l.tokens)

\* resolveOutcomeTokenIds up to its getMarket call
ResolveTokens(l, c, i) ==
    IF l.market = 0 THEN AfterResolve(l, c, i)
    ELSE IF l.tokens # 0 THEN AfterResolve(l, c, i)
    ELSE Awaits(l, c, i, "tokens", l.market)

\* a loop from its flag being set to its first await; an open paper position that
\* maybeSettlePaperPositions would wait for is not followed here
Started(l, c, i) ==
    IF c = "market"
    THEN IF l.interval = l.epoch /\ l.market # 0 THEN ResolveTokens(l, c, i)
         ELSE Awaits(l, c, i, "gamma", l.epoch)
    ELSE IF c = "underlying" THEN Awaits(l, c, i, "chainlink", 0)
    ELSE IF c = "books" THEN IF l.market = 0 THEN Finished(l, c, i) ELSE ResolveTokens(l, c, i)
    ELSE IF c = "quotes" THEN ResolveTokens(l, c, i)
    ELSE IF cfg.paper THEN Finished(l, c, i)
    ELSE Awaits(l, c, i, "balance", 0)

\* a timer calls its loop while the flag lets every firing in
Fired_reentrant(l, c) ==
    Started([l EXCEPT !.inFlight[c] = TRUE,
                      !.runs[c] = Append(@, [pc |-> "start", asked |-> 0]),
                      !.last = NoMark],
            c, Len(l.runs[c]) + 1)

\* a timer calls its loop: 'if (xInFlight) return; xInFlight = true; try { ... }'
Fired(l, c) ==
    IF l.inFlight[c] THEN [l EXCEPT !.last = [cadence |-> c, did |-> "dropped"]]
    ELSE Started([l EXCEPT !.inFlight[c] = TRUE,
                           !.runs[c] = Append(@, [pc |-> "start", asked |-> 0]),
                           !.last = NoMark],
                 c, Len(l.runs[c]) + 1)

\* refreshCurrentIntervalMarket after its Gamma calls, for the interval start it
\* computed before them: the market found, or none under any candidate slug
MarketRefreshed(l, asked, answer) ==
    IF answer = "ok"
    THEN [l EXCEPT !.interval = asked, !.market = asked,
                   !.tokens = IF l.market # asked THEN 0 ELSE @,
                   !.orderbooks = IF l.market # asked THEN 0 ELSE @]
    ELSE [l EXCEPT !.interval = asked, !.market = 0]

\* the books a fetch brought are stored and, in refreshOrderbooks, handed to
\* mode.onOrderbooks; a live strategy may wait for an order it posts
BooksHanded(l, c, i, asked, answer) ==
    IF answer = "order"
    THEN Awaits([l EXCEPT !.orderbooks = asked, !.last = [cadence |-> c, did |-> "handed"]],
                c, i, "order", asked)
    ELSE Finished([l EXCEPT !.orderbooks = asked, !.last = [cadence |-> c, did |-> "handed"]], c, i)

\* collateralLoop has a finally and no catch: the rejection of its call clears the flag
\* and leaves the loop as the rejection of a promise nobody handles, which the runtime
\* reports as a warning or raises as an uncaught exception that ends the process
Escaped(c, answer) == [cadence |-> c, did |-> IF answer = "abort" THEN "aborted" ELSE "rejected"]

\* an awaited call of execution i of loop c returns: the loop runs on to its next
\* await or to its end
Resumed(l0, c, i, answer) ==
    Bind([l0 EXCEPT !.last = NoMark], LAMBDA l :
    Bind(l.runs[c][i], LAMBDA run :
        IF run.pc = "gamma" THEN ResolveTokens(MarketRefreshed(l, run.asked, answer), c, i)
        ELSE IF run.pc = "tokens"
        THEN IF answer = "ok" THEN Awaits([l EXCEPT !.tokens = run.asked], c, i, "fees", run.asked)
             ELSE AfterResolve(l, c, i)
        ELSE IF run.pc = "fees"
        THEN AfterResolve([l EXCEPT !.fees = IF answer = "ok" THEN run.asked ELSE 0], c, i)
        ELSE IF run.pc = "fetch"
        THEN IF answer = "fail" THEN Finished(l, c, i) ELSE BooksHanded(l, c, i, run.asked, answer)
        ELSE IF run.pc = "chainlink"
        THEN Finished([l EXCEPT !.underlying = IF answer = "ok" THEN 1 + (@ % 2) ELSE @], c, i)
        ELSE IF run.pc = "balance"
        THEN IF answer = "ok" THEN Finished([l EXCEPT !.collateral = 1], c, i)
             ELSE Finished([l EXCEPT !.last = Escaped(c, answer)], c, i)
        ELSE Finished(l, c, i)))

\* what an awaited call can answer; only a live strategy posts orders. A balance call
\* that rejects is told apart by what the runtime does with the rejection
Answers(pc) ==
    IF pc = "fetch" /\ ~cfg.paper /\ cfg.enableLive THEN {"ok", "fail", "order"}
    ELSE IF pc = "balance" THEN {"ok", "fail", "abort"}
    ELSE {"ok", "fail"}

\* a timer fires
TimerFires ==
    \E c \in Cadences :
        /\ loops.last.did # "aborted"
        /\ Len(loops.runs[c]) < MaxRuns
        /\ loops' = Fired(loops, c)

\* the event loop delivers the answer of an awaited call
CallReturns ==
    \E c \in Cadences : \E i \in 1..Len(loops.runs[c]) : \E answer \in Answers(loops.runs[c][i].pc) :
        /\ loops.last.did # "aborted"
        /\ loops' = Resumed(loops, c, i, answer)

\* the clock passes the end of the interval
IntervalEnds ==
    /\ loops.epoch = 1
    /\ loops' = [loops EXCEPT !.epoch = 2, !.last = NoMark]

LoopsInit ==
    /\ inp = NoInput /\ out = NoOutput
    /\ cfg \in Configs("lag")
    /\ now = cfg.startedAt
    /\ paperBalance = NoOutput /\ world = NoOutput /\ books = NoOutput /\ collateral = NoOutput
    /\ arb = NoOutput /\ certainty = NoOutput /\ underlying = NoOutput /\ lag = NoOutput
    /\ phase = "none" /\ exch = NoOutput
    /\ loops = LoopsIdle

LoopsNext ==
    /\ TimerFires \/ CallReturns \/ IntervalEnds
    /\ UNCHANGED <<inp, out, now, cfg, paperBalance, world, books, collateral, arb, certainty,
                   underlying, lag, phase, exch>>

SpecLoops == LoopsInit /\ [][LoopsNext]_vars

(***************************************************************************)
(* Properties of the running engine                                        *)
(***************************************************************************)

\* C1: once an entry has been executed (a paper debit with a position opened, or
\* a buy order filled at the exchange), no step executes another entry before
\* that position has been exited or settled: a step that adds an entry starts
\* from a state without a standing entry.
C1_NoSecondEntryWhileOpen ==
    [][exch'.entries > exch.entries => exch.entries = 0]_vars

\* C2: an entry attempt of the arbitrage strategy never ends with one leg only:
\* after every step the account holds as many UP as DOWN shares, and in paper
\* mode a straddle is opened exactly by the step that debits the balance.
C2_NeverSingleLeg ==
    [][/\ exch'.up = exch'.down
       /\ cfg.paper => ((arb.open = null /\ arb'.open # null) => paperBalance' < paperBalance)
       /\ (cfg.paper /\ arb.open = null /\ paperBalance' < paperBalance) => arb'.open # null]_vars

\* the tick's view after a step of the engine, and the band required before its entry
Ticked == [world |-> world', books |-> books', certainty |-> certainty']
BeforeEntry == [world |-> world', books |-> books', certainty |-> certainty]
RequiredBand == getCurrentEntryRange([world |-> world, certainty |-> certainty]).range

\* a step that books a certainty position
EntryStep ==
    /\ certainty'.open # null
    /\ certainty.open = null \/ certainty.open.tradeId # certainty'.open.tradeId

\* C8: every certainty entry (first entry or re-entry, paper or live) is executed on a
\* tick at which, for the entered side, the time remaining is within the entry window,
\* the 1-minute candle momentum is bullish, the warm-up period has passed, the best ask
\* lies within the currently required band and the spread is at most MAX_SPREAD.
C8_EntryOnlyWhenAllConditionsHold ==
    [][EntryStep =>
         LET side == certainty'.open.side
             summary == getBooks(Ticked, side).summary
             ask == Rat(bestAskOf(summary), 1)
             band == getCurrentEntryRange(BeforeEntry).range
         IN /\ timeRemainingSec(Ticked) # NoNum
            /\ timeRemainingSec(Ticked) <= ENTRY_TIME_WINDOW_SEC
            /\ isBullishMomentum(certainty', side)
            /\ isWarmedUp(certainty', side)
            /\ RatLeq(band.min, ask) /\ RatLeq(ask, band.max)
            /\ spreadOk(summary)]_vars

\* a step in which a stop-loss sale is realized: the position is closed as a stop-loss
\* and, in live mode, the sell order has been filled
StopLossStep ==
    /\ certainty.open # null
    /\ certainty'.open = null
    /\ certainty'.intervalState.lastExitType = "stop-loss"
    /\ exch'.actualExitPrice # null
    /\ cfg.paper \/ exch'.up + exch'.down < exch.up + exch.down

\* C9: after a stop-loss whose realized exit price is p, the band required for the
\* next entry is [p - buffer, p + buffer], not the default band.
C9_BandAroundRealizedExitPrice ==
    [][StopLossStep =>
         LET band == getCurrentEntryRange([world |-> world', certainty |-> certainty']).range
             want == StopLossRange(exch'.actualExitPrice)
         IN RatEq(band.min, want.min) /\ RatEq(band.max, want.max)]_vars

\* the band set by a stop-loss is the required band
Armed ==
    /\ certainty.intervalState.lastExitType = "stop-loss"
    /\ certainty.intervalState.lastStopLossExitPrice # null
    /\ RequiredBand = StopLossRange(certainty.intervalState.lastStopLossExitPrice)

\* a step with a successful entry: a paper position is opened, a live buy order is filled
SuccessfulEntry ==
    IF cfg.paper THEN EntryStep
    ELSE exch'.up + exch'.down > exch.up + exch.down

\* C10: once a stop-loss has set the re-entry band, it stays the required band on every
\* later tick until a successful re-entry; only a successful entry clears it.
C10_BandKeptUntilSuccessfulEntry ==
    [][(Armed /\ ~SuccessfulEntry) => RequiredBand' = RequiredBand]_vars

(***************************************************************************)
(* Lag mode: entries and exits                                             *)
(***************************************************************************)

\* a step in which maybeExecuteLag opens a position
LagEntryStep ==
    /\ cfg.mode = "lag"
    /\ lag'.open # null
    /\ lag.open = null \/ lag.open.openedAt # lag'.open.openedAt

\* what the evaluation of the tick that has just run measured, read off the history
\* it pushed to and the baseline it compared with: a move of LAG_SPOT_MOVE_USD over
\* the fast window, both mids within LAG_MIN_MARKET_MOVE of the baseline
LagFound ==
    /\ lag.lastSpot # NoNum
    /\ books.up # null /\ books.down # null
    /\ spotDeltaOverSeconds(lag.spotHistory, LAG.FAST_SEC).ok
    /\ Abs(spotDeltaOverSeconds(lag.spotHistory, LAG.FAST_SEC).d) >= LAG.SPOT_MOVE_USD
    /\ Abs(books.up.mark2 - lag.lastUpMid) < LAG.MIN_MARKET_MOVE2
    /\ Abs(books.down.mark2 - lag.lastDownMid) < LAG.MIN_MARKET_MOVE2

\* C11: a lag entry is executed only on a tick whose own evaluation found a lag, a
\* spot move of at least LAG_SPOT_MOVE_USD over the fast window with both mids
\* within LAG_MIN_MARKET_MOVE of the baseline.
C11_EntryOnlyOnMeasuredLag ==
    [][LagEntryStep => LagFound']_vars

\* the part of C11 that holds: the entry's tick saw a spot move of LAG_SPOT_MOVE_USD
\* over the fast window or, with no sample that old, since the baseline
C11_EntryOnlyOnSomeMove ==
    [][LagEntryStep =>
          /\ lag'.lastSpot # NoNum
          /\ Abs(IF spotDeltaOverSeconds(lag'.spotHistory, LAG.FAST_SEC).ok
                 THEN spotDeltaOverSeconds(lag'.spotHistory, LAG.FAST_SEC).d
                 ELSE underlying'.price - lag'.lastSpot) >= LAG.SPOT_MOVE_USD
          /\ Abs(books'.up.mark2 - lag'.lastUpMid) < LAG.MIN_MARKET_MOVE2
          /\ Abs(books'.down.mark2 - lag'.lastDownMid) < LAG.MIN_MARKET_MOVE2]_vars

\* entries of both kinds happen
C11_SeenFast == lag.open # null /\ lag.open.openedAt = now /\ LagFound
C11_SeenFallback == lag.open # null /\ lag.open.openedAt = now /\ ~LagFound

\* the entry the last evaluated tick suggested, as the state keeps it
Suggested(l) == l.signal = "LAG" /\ l.suggestedSide # "none" /\ l.suggestedLimitPrice > 0

\* C12: a lag entry executes only on a tick that completes LAG_ENTRY_CONFIRM_TICKS
\* (two) consecutive evaluation ticks that suggested the same side at the same limit
\* price: the tick before the entry's suggested what the entry bought.
C12_EntryAfterConsecutiveTicks ==
    [][LagEntryStep =>
          /\ Suggested(lag)
          /\ lag.suggestedSide = lag'.open.side
          /\ lag.suggestedLimitPrice = lag'.open.entryPrice]_vars

\* the part of C12 that holds: the entry buys what its own tick suggests, and that
\* suggestion has been counted LAG_ENTRY_CONFIRM_TICKS times since the count was last
\* restarted by a suggestion of another side or price
C12_EntryAfterCountedTicks ==
    [][LagEntryStep =>
          /\ Suggested(lag')
          /\ lag'.suggestedSide = lag'.open.side
          /\ lag'.suggestedLimitPrice = lag'.open.entryPrice
          /\ lag'.pending # null
          /\ lag'.pending.side = lag'.open.side /\ lag'.pending.px = lag'.open.entryPrice
          /\ lag'.pending.hits >= LAG.ENTRY_CONFIRM_TICKS]_vars

\* a step in which maybeExitLag closes the position on its stop: the best bid the
\* tick fetched is below the take-profit price
LagStopOutStep ==
    /\ cfg.mode = "lag"
    /\ lag.open # null /\ lag'.open = null
    /\ ~RatLeq(lag.open.sellPrice,
               Rat((IF lag.open.side = "UP" THEN books'.up ELSE books'.down).bestBid, 1))

StopSeen(open, bk) ==
    /\ bk.up # null /\ bk.down # null
    /\ RatLeq(IF (IF open.side = "UP" THEN bk.up ELSE bk.down).mark2 > 0
              THEN Rat((IF open.side = "UP" THEN bk.up ELSE bk.down).mark2, 2)
              ELSE Rat((IF open.side = "UP" THEN bk.up ELSE bk.down).bestBid, 1),
              open.stopPrice)

\* C14: a stop-loss closes the position only after LAG_STOP_GRACE_MS and when the
\* stop condition has held on LAG_STOP_CONFIRM_TICKS (two) consecutive evaluation
\* ticks: on the books of the closing tick and on those of the tick before it.
C14_StopAfterGraceAndConsecutiveTicks ==
    [][LagStopOutStep =>
          /\ now - lag.open.openedAt >= LAG.STOP_GRACE_MS
          /\ StopSeen(lag.open, books')
          /\ StopSeen(lag.open, books)]_vars

\* the part of C14 that holds: the closing tick is past the grace period, sees the
\* stop condition, and an earlier tick past the grace period was counted for it
C14_StopAfterGraceAndCountedTicks ==
    [][LagStopOutStep =>
          /\ now - lag.open.openedAt >= LAG.STOP_GRACE_MS
          /\ StopSeen(lag.open, books')
          /\ lag.open.stopHits >= LAG.STOP_CONFIRM_TICKS - 1]_vars

\* the two spot feeds are both fresh and further apart than LAG_FEED_DISAGREE_USD_HARD
HardDisagreement ==
    /\ cfg.mode = "lag"
    /\ underlying.binance_ws.price > 0 /\ underlying.chainlink.price > 0
    /\ underlying.binance_ws.exchangeTimestampMs # NoTime
    /\ underlying.chainlink.exchangeTimestampMs # NoTime
    /\ now - underlying.binance_ws.exchangeTimestampMs <= LAG.BINANCE_MAX_AGE_MS
    /\ now - underlying.chainlink.exchangeTimestampMs <= LAG.CHAINLINK_MAX_AGE_MS
    /\ Abs(underlying.binance_ws.price - underlying.chainlink.price) > LAG.FEED_DISAGREE_USD_HARD

ColdStartTick ==
    /\ cfg.mode = "lag"
    /\ phase = "books" /\ phase' = "collateral"
    /\ lag.spotHistory = <<>>
    /\ lag.lastSpot = NoNum /\ lag.lastUpMid = NoNum /\ lag.lastDownMid = NoNum

\* C16: a tick evaluated with an empty history (no earlier spot sample, no baseline)
\* proposes no signal and executes no entry, whatever the books and the spot are.
C16_ColdStartProposesNothing ==
    [][ColdStartTick => lag'.signal = "none" /\ ~Suggested(lag') /\ ~LagEntryStep]_vars

\* the part of C16 that holds: a cold-start tick suggests no side, no shares and no
\* limit price, counts no confirmation and executes no entry
C16_ColdStartSuggestsNothing ==
    [][ColdStartTick =>
          /\ lag'.suggestedSide = "none"
          /\ lag'.suggestedShares = NoNum /\ lag'.suggestedLimitPrice = NoNum
          /\ lag'.pending = null
          /\ ~LagEntryStep]_vars

(***************************************************************************)
(* Properties of the interleaved loops                                     *)
(***************************************************************************)

\* C17: of each polling loop at most one execution is in flight at any time, its
\* awaited calls and the strategy tick of the books loop included; a firing that
\* arrives meanwhile starts nothing and changes nothing, and is not run later.
C17_OneExecutionPerCadence ==
    [][/\ \A c \in Cadences :
             /\ Len(loops'.runs[c]) <= 1
             /\ loops'.inFlight[c] <=> Len(loops'.runs[c]) = 1
             /\ Len(loops'.runs[c]) > Len(loops.runs[c]) => loops.runs[c] = <<>>
       /\ loops'.last.did = "dropped" =>
             /\ loops.inFlight[loops'.last.cadence]
             /\ [loops' EXCEPT !.last = loops.last] = loops]_vars

\* a firing of the books timer was dropped while the strategy waited for its order
C17_Witness ==
    /\ loops # NoOutput
    /\ loops.last = [cadence |-> "books", did |-> "dropped"]
    /\ loops.runs["books"] # <<>> /\ loops.runs["books"][1].pc = "order"

\* the strategy's tick is in progress: refreshOrderbooks waits for mode.onOrderbooks
TickInProgress(l) == l.runs["books"] # <<>> /\ l.runs["books"][1].pc = "order"

\* the market, tokens, interval, fees and spot a strategy reads
Snapshot(l) == <<l.interval, l.market, l.tokens, l.fees, l.underlying>>

\* C18: a strategy observes one consistent snapshot per tick: from the moment the
\* fetched books are handed to it until its tick ends no other loop changes the
\* market, tokens, interval, fees or spot, and the books handed to it are those of
\* the tokens, and the tokens those of the market, in the snapshot at that moment.
C18_OneSnapshotPerTick ==
    [][/\ (TickInProgress(loops) /\ TickInProgress(loops')) => Snapshot(loops') = Snapshot(loops)
       /\ loops'.last.did = "handed" =>
             /\ loops'.orderbooks = loops'.tokens
             /\ loops'.tokens = loops'.market]_vars

\* the part of C18 that holds: a paper strategy's tick is over in the step that hands
\* it the books, and the books stored are those of the tokens the fetch was made for
C18_PaperTickIsOneStep ==
    [][/\ cfg.paper => ~TickInProgress(loops')
       /\ (loops'.last.did = "handed" /\ loops.runs["books"] # <<>>) =>
             loops'.orderbooks = loops.runs["books"][1].asked]_vars

(***************************************************************************)
(* Ownership and failed orders                                             *)
(***************************************************************************)

\* booksLoop is the next timer to run
BooksDue ==
    phase = "books" \/ (cfg.mode # "lag" /\ phase = "market" /\ ~Due(MARKET_REFRESH_MS))

\* the engine's part of a books step, maybeSettlePaperPositions and refreshOrderbooks,
\* changes no strategy's position, ledger or state
EngineKeeps(S1) == S1.arb = arb /\ S1.certainty = certainty /\ S1.lag = lag

\* the strategy's part of a books step, mode.onOrderbooks, leaves the interval, the
\* market, the tokens, the books and the underlying as the engine's part left them
StrategyKeepsMarket(S1, S2) ==
    S2.world = S1.world /\ S2.books = S1.books /\ S2.underlying = S1.underlying

\* C19: single-writer ownership in every books step that can be taken: the engine's
\* part of it changes no strategy's position, ledger or state, and the strategy's
\* part changes no field of the shared snapshot (interval, market, tokens, books,
\* underlying, collateral).
C19_SingleWriter ==
    BooksDue =>
       \A winner \in (IF SettlementDue(Cur) THEN Winners ELSE {"none"}) :
       \A t \in (IF NeedsTokens(Cur) THEN Asked(TokenAnswers)
                 ELSE {CHOOSE x \in TokenAnswers : x.tok = "fail"}) :
       \A fetch \in Fetches :
          Bind(refreshOrderbooks(maybeSettlePaperPositions(Cur, winner), t, fetch).S, LAMBDA S1 :
             /\ EngineKeeps(S1)
             /\ \A e \in OrderEnvs(winner, t, fetch) :
                   Bind(booksLoop(Cur, winner, t, fetch, e), LAMBDA S2 :
                       StrategyKeepsMarket(S1, S2) /\ S2.collateral = S1.collateral))

\* the part of C19 that holds: no strategy writes the interval, the market, the
\* tokens, the books or the underlying, and the engine's part of a step with no
\* settlement due leaves every strategy's state alone
C19_StrategyKeepsMarketAndBooks ==
    BooksDue =>
       \A winner \in (IF SettlementDue(Cur) THEN Winners ELSE {"none"}) :
       \A t \in (IF NeedsTokens(Cur) THEN Asked(TokenAnswers)
                 ELSE {CHOOSE x \in TokenAnswers : x.tok = "fail"}) :
       \A fetch \in Fetches :
          Bind(refreshOrderbooks(maybeSettlePaperPositions(Cur, winner), t, fetch).S, LAMBDA S1 :
             /\ ~SettlementDue(Cur) => EngineKeeps(S1)
             /\ \A e \in OrderEnvs(winner, t, fetch) :
                   StrategyKeepsMarket(S1, booksLoop(Cur, winner, t, fetch, e)))


\* every order this run of booksLoop submits is rejected or comes back without a fill
\* (certainty submits one order in a tick, whose answer is e.order)
OrderFailed(e) == e.order # "filled" /\ (cfg.mode = "certainty" \/ e.order2 # "filled")

\* this run of booksLoop submits an order: its answer makes a difference
OrderSubmitted(winner, t, fetch, e) ==
    \E e2 \in OrderEnvs(winner, t, fetch) :
       /\ e2.refresh = e.refresh /\ e2.flow = e.flow
       /\ booksLoop(Cur, winner, t, fetch, e2) # booksLoop(Cur, winner, t, fetch, e)

\* a lag position without the count of its stop ticks
LagHeld(open) == IF open = null THEN null ELSE [open EXCEPT !.stopHits = 0]

\* the positions, cooldown timestamps, trade id, re-entry state and paper ledger of S2
\* are those of S1; the re-entry state of a new market starts afresh
TradeRecordsKept(S1, S2) ==
    /\ S2.arb.open = S1.arb.open /\ S2.arb.lastTradeAt = S1.arb.lastTradeAt
    /\ S2.certainty.open = S1.certainty.open /\ S2.certainty.lastTradeAt = S1.certainty.lastTradeAt
    /\ S2.certainty.tradeSeq = S1.certainty.tradeSeq
    /\ S2.certainty.intervalState.requireReentryUntilResolved
          = S1.certainty.intervalState.requireReentryUntilResolved
    /\ S2.certainty.intervalState.marketId = S1.certainty.intervalState.marketId
          => S2.certainty.intervalState = S1.certainty.intervalState
    /\ LagHeld(S2.lag.open) = LagHeld(S1.lag.open) /\ S2.lag.lastTradeAt = S1.lag.lastTradeAt
    /\ S2.lag.lastStopAt = S1.lag.lastStopAt
    /\ S2.paperBalance = S1.paperBalance

\* C20: when every order a strategy's tick submits is rejected or not filled, the tick
\* leaves the strategy's position, cooldown timestamps, trade id, re-entry state and
\* ledger as they were before the tick
C20_FailedOrderLeavesStateUnchanged ==
    (BooksDue /\ ~cfg.paper /\ cfg.enableLive) =>
       \A winner \in (IF SettlementDue(Cur) THEN Winners ELSE {"none"}) :
       \A t \in (IF NeedsTokens(Cur) THEN Asked(TokenAnswers)
                 ELSE {CHOOSE x \in TokenAnswers : x.tok = "fail"}) :
       \A fetch \in Fetches :
       \A e \in OrderEnvs(winner, t, fetch) :
          (OrderFailed(e) /\ OrderSubmitted(winner, t, fetch, e)) =>
             TradeRecordsKept(refreshOrderbooks(maybeSettlePaperPositions(Cur, winner), t, fetch).S,
                              booksLoop(Cur, winner, t, fetch, e))

(***************************************************************************)
(* Error handling and settlement                                           *)
(***************************************************************************)

\* the token ids are resolved and a fee rate is not known
FeeUnknown(S) ==
    /\ S.world.upTokenId # NoId /\ S.world.downTokenId # NoId
    /\ S.world.upFeeBps = NoNum \/ S.world.downFeeBps = NoNum

\* answers of the exchange in which the fee service has a usable rate for both tokens
FeeServiceAnswers ==
    {t \in [tok : {"ok"}, upFee : RawFees, downFee : RawFees] :
        normalizeFeeBps(t.upFee) # NoNum /\ normalizeFeeBps(t.downFee) # NoNum}

\* C21: while a fee rate is unknown the lookup is retried on every tick: a tick of
\* booksLoop on which the fee service answers leaves both fees known, without the
\* market having to change
C21_UnknownFeeRetried ==
    (BooksDue /\ FeeUnknown(Cur)) =>
       \A t \in FeeServiceAnswers : \A fetch \in Fetches :
          ~FeeUnknown(refreshOrderbooks(maybeSettlePaperPositions(Cur, "none"), t, fetch).S)

\* a step that buys a straddle, on paper or at the exchange
StraddleStep ==
    \/ arb'.open # null /\ arb.open # arb'.open
    \/ exch'.up > exch.up \/ exch'.down > exch.down

\* what holds of C21: no straddle is bought on a tick that leaves a fee rate unknown
C21_NoEntryWhileFeeUnknown ==
    [][(cfg.mode = "arbitrage" /\ StraddleStep)
          => (world'.upFeeBps # NoNum /\ world'.downFeeBps # NoNum)]_vars

\* a tick of booksLoop is due with the tokens resolved and the fees unknown
C21_FeeUnknownSeen == BooksDue /\ FeeUnknown(Cur) /\ cfg.mode = "arbitrage"

\* the open position of a strategy with exits is stale in S: its interval has ended,
\* its market is not the current one, or its token is not the current token of its side
StaleLag(S) ==
    /\ S.lag.open # null
    /\ \/ nowSec >= S.lag.open.endEpochSec
       \/ S.lag.open.marketId # S.world.marketId
       \/ LagSide(S, S.lag.open.side).tokenId # S.lag.open.tokenId

StaleCertainty(S) ==
    /\ S.certainty.open # null
    /\ \/ nowSec >= S.certainty.open.endEpochSec
       \/ S.certainty.open.marketId # S.world.marketId
       \/ (IF S.certainty.open.side = "up" THEN S.world.upTokenId ELSE S.world.downTokenId)
             # S.certainty.open.tokenId

\* the strategy's part of a tick leaves the position, its confirmation counters,
\* the balance and the shares at the exchange as they were
ExitsFrozen(S1, S2) ==
    /\ S2.lag.open = S1.lag.open
    /\ S2.certainty.open = S1.certainty.open
    /\ S2.certainty.tpConfirm = S1.certainty.tpConfirm
    /\ S2.certainty.stopConfirm = S1.certainty.stopConfirm
    /\ S2.paperBalance = S1.paperBalance
    /\ S2.exch = S1.exch

\* C22: in every books step that can be taken, if the open lag or certainty position
\* is stale when the strategy is handed the books (its interval has ended, its market
\* id differs from the current market, or its token id differs from the current token
\* of its side), the strategy's part of the tick executes no sell and leaves the
\* position, its confirmation counters and the balance unchanged.
C22_StaleFreezesExits ==
    BooksDue =>
       \A winner \in (IF SettlementDue(Cur) THEN Winners ELSE {"none"}) :
       \A t \in (IF NeedsTokens(Cur) THEN Asked(TokenAnswers)
                 ELSE {CHOOSE x \in TokenAnswers : x.tok = "fail"}) :
       \A fetch \in Fetches :
          Bind(refreshOrderbooks(maybeSettlePaperPositions(Cur, winner), t, fetch), LAMBDA r :
             (r.run /\ (StaleLag(r.S) \/ StaleCertainty(r.S))) =>
                 \A e \in OrderEnvs(winner, t, fetch) :
                    ExitsFrozen(r.S, booksLoop(Cur, winner, t, fetch, e)))

\* the part of C22 that holds: certainty freezes on each of the three conditions, and
\* lag freezes when the token of the position's side has changed
C22_CertaintyAndTokenFreeze ==
    BooksDue =>
       \A winner \in (IF SettlementDue(Cur) THEN Winners ELSE {"none"}) :
       \A t \in (IF NeedsTokens(Cur) THEN Asked(TokenAnswers)
                 ELSE {CHOOSE x \in TokenAnswers : x.tok = "fail"}) :
       \A fetch \in Fetches :
          Bind(refreshOrderbooks(maybeSettlePaperPositions(Cur, winner), t, fetch), LAMBDA r :
             (/\ r.run
              /\ \/ StaleCertainty(r.S)
                 \/ r.S.lag.open # null
                    /\ LagSide(r.S, r.S.lag.open.side).tokenId # NoId
                    /\ LagSide(r.S, r.S.lag.open.side).tokenId # r.S.lag.open.tokenId) =>
                 \A e \in OrderEnvs(winner, t, fetch) :
                    ExitsFrozen(r.S, booksLoop(Cur, winner, t, fetch, e)))

\* a lag position held into a tick after the end of its interval
C22_StaleLagSeen == BooksDue /\ StaleLag(Cur) /\ nowSec >= lag.open.endEpochSec

\* a certainty position held into a tick after the end of its interval
C22_StaleCertaintySeen == BooksDue /\ StaleCertainty(Cur)

\* a position whose interval is over
Expired(open) == open # null /\ nowSec >= open.endEpochSec

\* the engine's settlement removes every position in S whose interval is over
ExpiredRemoved(S, S1) ==
    /\ Expired(S.arb.open) => S1.arb.open = null
    /\ Expired(S.lag.open) => S1.lag.open = null
    /\ Expired(S.certainty.open) => S1.certainty.open = null

\* C23: every open position is eventually destroyed, in paper mode and in live mode:
\* on every books tick at or after the end of the position's interval on which the
\* winner of its market is available, settlement removes the position, so that the
\* strategy is idle again.
C23_ExpiredPositionSettled ==
    BooksDue =>
       \A winner \in Winners \ {"none"} :
          ExpiredRemoved(Cur, maybeSettlePaperPositions(Cur, winner))

\* the part of C23 that holds: in paper mode
C23_PaperPositionSettled ==
    (BooksDue /\ cfg.paper) =>
       \A winner \in Winners \ {"none"} :
          ExpiredRemoved(Cur, maybeSettlePaperPositions(Cur, winner))

\* a live position is still held after the end of its interval
C23_LiveExpiredSeen ==
    BooksDue /\ ~cfg.paper /\ (Expired(lag.open) \/ Expired(certainty.open))

\* C24: the certainty trade ledger is an append-only trail of immutable records: no
\* step shortens it, no step changes a record that is already in it, and every
\* executed entry and every executed exit or settlement adds a new record.
C24_LedgerAppendOnly ==
    [][/\ Len(certainty'.trades) >= Len(certainty.trades)
       /\ \A i \in DOMAIN certainty.trades : certainty'.trades[i] = certainty.trades[i]
       /\ (certainty.open # certainty'.open) => Len(certainty'.trades) = Len(certainty.trades) + 1]_vars

\* the part of C24 that holds: the ledger never shrinks, every entry appends one
\* record, and the entry fields of a record are never changed
C24_LedgerKeepsEntries ==
    [][/\ Len(certainty'.trades) >= Len(certainty.trades)
       /\ \A i \in DOMAIN certainty.trades :
             [certainty'.trades[i] EXCEPT !.exitType = "none", !.status = "OPEN"]
                = [certainty.trades[i] EXCEPT !.exitType = "none", !.status = "OPEN"]
       /\ (certainty.open = null /\ certainty'.open # null)
             => Len(certainty'.trades) = Len(certainty.trades) + 1]_vars

\* a position was closed and its record is in the ledger
C24_ClosedTradeSeen ==
    certainty.open = null /\ \E i \in DOMAIN certainty.trades : certainty.trades[i].status # "OPEN"

\* answers of the exchange that leave their mark on a handler run that asks for them:
\* every order is rejected and a synchronous getBalanceAllowance is answered
ExchangeAnswers ==
    {[order |-> "throw", order2 |-> "throw",
      refresh |-> [ok |-> TRUE, balance |-> LiveFunds, allowance |-> 3 * MoneyScale], flow |-> f]
        : f \in IF cfg.mode = "lag" THEN Flows ELSE {"none"}}

\* C25: the live-order gate. In paper mode, or with ENABLE_LIVE_ORDERS false, no tick
\* of any strategy posts an order: a tick on which the exchange would reject every
\* order ends in the state it ends in when every order would be filled, so that no
\* order is posted, and the shares held at the exchange do not change.
C25_NoOrderBehindGate ==
    (BooksDue /\ (cfg.paper \/ ~cfg.enableLive)) =>
       \A winner \in (IF SettlementDue(Cur) THEN Winners ELSE {"none"}) :
       \A t \in (IF NeedsTokens(Cur) THEN Asked(TokenAnswers)
                 ELSE {CHOOSE x \in TokenAnswers : x.tok = "fail"}) :
       \A fetch \in Fetches :
       \A e \in ExchangeAnswers :
          Bind(booksLoop(Cur, winner, t, fetch, [QuietEnv EXCEPT !.flow = e.flow]), LAMBDA S2 :
             /\ booksLoop(Cur, winner, t, fetch, e) = S2
             /\ S2.exch.up = exch.up
             /\ S2.exch.down = exch.down)

\* with the gate closed in live mode a strategy came to its entry and opened nothing
C25_GateClosedSeen ==
    /\ ~cfg.paper /\ ~cfg.enableLive
    /\ \/ cfg.mode = "certainty" /\ certainty.tradeSeq > 0 /\ certainty.open = null
       \/ cfg.mode = "arbitrage" /\ arb.suggestedShares # NoNum /\ arb.open = null
       \/ cfg.mode = "lag" /\ lag.lastSignalAt # NoTime /\ lag.open = null

\* the dollars a settlement owes for the positions of S whose interval is over, given
\* the winner of their market: N for a straddle of N shares per side, the shares of a
\* single-side position on the winning side, nothing for one on the losing side
PayoutOwed(S, winner) ==
    (IF Expired(S.arb.open) THEN S.arb.open.sharesPerSide ELSE 0)
    + (IF Expired(S.lag.open) /\ S.lag.open.side = winner THEN S.lag.open.shares ELSE 0)
    + (IF Expired(S.certainty.open)
          /\ S.certainty.open.side = (IF winner = "UP" THEN "up" ELSE "down")
       THEN S.certainty.open.shares ELSE 0)

\* C26: a paper position is held to interval resolution. On every books tick of a
\* paper run, settlement changes a position or the balance only if the position's
\* interval has ended and the winner of its market is resolved; it then credits N x $1
\* for a straddle of N shares per side, shares x $1 for a single-side position on the
\* winning side and 0 for one on the losing side, and clears the position in that step.
C26_PaperSettlement ==
    (BooksDue /\ cfg.paper) =>
       \A winner \in Winners :
          Bind(maybeSettlePaperPositions(Cur, winner), LAMBDA S1 :
             IF winner # "none" /\ (Expired(arb.open) \/ Expired(lag.open) \/ Expired(certainty.open))
             THEN /\ S1.paperBalance = paperBalance + PayoutOwed(Cur, winner) * MoneyScale
                  /\ ExpiredRemoved(Cur, S1)
             ELSE /\ S1.paperBalance = paperBalance
                  /\ S1.arb.open = arb.open /\ S1.lag.open = lag.open
                  /\ S1.certainty.open = certainty.open)

\* a paper position is held at a tick at or after the end of its interval
C26_PaperExpiredSeen ==
    BooksDue /\ cfg.paper /\ (Expired(arb.open) \/ Expired(lag.open) \/ Expired(certainty.open))

(***************************************************************************)
(* The taker fee on a round trip (engine.js, part_001)                     *)
(***************************************************************************)

RECURSIVE Gcd(_, _)
Gcd(a, b) == IF b = 0 THEN a ELSE Gcd(b, a % b)

\* exact arithmetic on fractions with positive denominators; a product is reduced
\* crosswise before it is multiplied out
Reduced(n, d) == Rat(n \div Gcd(Abs(n), d), d \div Gcd(Abs(n), d))
RatTimes(a, b) ==
    Bind(Reduced(a.n, b.d), LAMBDA l :
    Bind(Reduced(b.n, a.d), LAMBDA r : Rat(l.n * r.n, l.d * r.d)))
RatPlus(a, b) ==
    Bind((a.d \div Gcd(a.d, b.d)) * b.d, LAMBDA d : Rat(a.n * (d \div a.d) + b.n * (d \div b.d), d))
RatMinus(a, b) == RatPlus(a, Rat(0 - b.n, b.d))
RatLess(a, b) ==
    Bind((a.d \div Gcd(a.d, b.d)) * b.d, LAMBDA d : a.n * (d \div a.d) < b.n * (d \div b.d))

\* engine.js applyTakerFeeOnBuy: amountUsdc * (1 + bps / 10000), on fractions of a dollar
applyTakerFeeOnBuy(amountUsdc, feeBps) ==
    RatTimes(amountUsdc, RatPlus(Rat(1, 1), Rat(IF feeBps = NoNum THEN 0 ELSE feeBps, 10000)))

\* engine.js applyTakerFeeOnSell without the fee
applyTakerFeeOnSellUsdc_noFee(proceedsUsdc, feeBps) == proceedsUsdc

\* engine.js applyTakerFeeOnSell: proceedsUsdc * (1 - bps / 10000), on fractions of a dollar
applyTakerFeeOnSellUsdc(proceedsUsdc, feeBps) ==
    RatTimes(proceedsUsdc, RatMinus(Rat(1, 1), Rat(IF feeBps = NoNum THEN 0 ELSE feeBps, 10000)))

\* part_001 calcPolymarketFee: notionalUsdc * (1 - price01) * POLYMARKET_FEE_RATE
calcPolymarketFee(notionalUsdc, price01) ==
    RatTimes(RatTimes(notionalUsdc, RatMinus(Rat(1, 1), price01)), Rat(POLYMARKET_FEE_RATE_PCT, 100))

\* part_001 applyTakerFeeOnBuy: notional + fee
applyTakerFeeOnBuyReal(notionalUsdc, price01) ==
    RatPlus(notionalUsdc, calcPolymarketFee(notionalUsdc, price01))

\* part_001 applyTakerFeeOnSell: gross - fee
applyTakerFeeOnSellReal(grossUsdc, price01) ==
    RatMinus(grossUsdc, calcPolymarketFee(grossUsdc, price01))

\* amounts in dollars, execution prices in cents, fees in basis points
FeeAmounts == {Rat(1, 2), Rat(1, 1), Rat(3, 1), Rat(7, 1), Rat(20, 1)}
FeePrices == {Rat(1, 100), Rat(1, 4), Rat(1, 2), Rat(4, 5), Rat(99, 100)}
FeeRates == {1, 50, 200, 1000, 10000, 15000}

FeeInputs ==
    [op : {"feeBps"}, x : FeeAmounts, feeBps : FeeRates]
    \cup [op : {"feeReal"}, x : FeeAmounts, p : FeePrices]

FeeInit ==
    /\ inp \in FeeInputs
    /\ out = NoOutput
    /\ now = 0 /\ cfg = NoOutput /\ paperBalance = 0 /\ world = NoOutput /\ books = NoOutput
    /\ collateral = NoOutput /\ arb = NoOutput /\ certainty = NoOutput /\ phase = "none" /\ exch = NoOutput
    /\ loops = NoOutput
    /\ underlying = NoOutput /\ lag = NoOutput

\* a buy and then a sell of x under the basis-point fee of the engine and the lag mode
CallFeeBps ==
    /\ inp.op = "feeBps" /\ out = NoOutput
    /\ out' = [op |-> inp.op,
               res |-> applyTakerFeeOnSellUsdc(applyTakerFeeOnBuy(inp.x, inp.feeBps), inp.feeBps)]
    /\ UNCHANGED <<inp, engineVars>>

\* a buy and then a sell of x at price p under certainty's price-dependent fee
CallFeeReal ==
    /\ inp.op = "feeReal" /\ out = NoOutput
    /\ out' = [op |-> inp.op,
               res |-> applyTakerFeeOnSellReal(applyTakerFeeOnBuyReal(inp.x, inp.p), inp.p)]
    /\ UNCHANGED <<inp, engineVars>>

SpecFee == FeeInit /\ [][CallFeeBps \/ CallFeeReal]_vars

\* C27: fee drag. For every amount x > 0, every execution price p in (0,1) and every
\* fee > 0, applying the taker fee on a buy and then on a sell returns strictly less
\* than x, under the basis-point fee and under certainty's price-dependent fee.
C27_FeeDrag ==
    out # NoOutput => RatLess(out.res, inp.x)

\* a round trip under each fee model was computed
C27_RoundTripSeen ==
    /\ out # NoOutput
    /\ \/ inp.op = "feeBps" /\ inp.feeBps = 200
       \/ inp.op = "feeReal" /\ inp.p = Rat(4, 5)

(***************************************************************************)
(* Certainty exits                                                         *)
(***************************************************************************)

\* S as certainty's onOrderbooks sees it when it comes to its open position
CertTicked(S) == [S EXCEPT !.certainty = CandlesTicked(S)]

\* the exit checks of the open position of S are evaluated on this tick
ExitsEvaluated(S) == S.certainty.open # null /\ ~StaleCertainty(S)

\* the tick from S1 to S2 sold the open position of S1
ExitExecuted(S1, S2) == S2.certainty.open = null

\* C28: a certainty exit is executed only on a tick that completes CONFIRM_TICKS
\* consecutive evaluation ticks on which that exit's condition held: on every tick
\* on which the exits of the open position are evaluated, a sell is executed only if
\* the condition of its exit holds and its count reaches CONFIRM_TICKS, and a
\* condition that does not hold leaves its exit's count at zero.
C28_ExitAfterConsecutiveTicks ==
    (BooksDue /\ cfg.mode = "certainty") =>
       \A winner \in (IF SettlementDue(Cur) THEN Winners ELSE {"none"}) :
       \A t \in (IF NeedsTokens(Cur) THEN Asked(TokenAnswers)
                 ELSE {CHOOSE x \in TokenAnswers : x.tok = "fail"}) :
       \A fetch \in Fetches :
          Bind(refreshOrderbooks(maybeSettlePaperPositions(Cur, winner), t, fetch), LAMBDA r :
             (r.run /\ ExitsEvaluated(r.S)) =>
                Bind(CertTicked(r.S), LAMBDA S1 :
                   \A e \in OrderEnvs(winner, t, fetch) :
                      Bind(booksLoop(Cur, winner, t, fetch, e), LAMBDA S2 :
                         /\ ExitExecuted(S1, S2) =>
                               \/ /\ checkTakeProfit(S1, S1.certainty.open)
                                  /\ S1.certainty.tpConfirm + 1 >= CONFIRM_TICKS
                               \/ /\ checkStopLoss(S1, S1.certainty.open)
                                  /\ S1.certainty.stopConfirm + 1 >= CONFIRM_TICKS
                         /\ ~checkTakeProfit(S1, S1.certainty.open) => S2.certainty.tpConfirm = 0
                         /\ (checkTakeProfit(S1, S1.certainty.open)
                               \/ ~checkStopLoss(S1, S1.certainty.open))
                               => S2.certainty.stopConfirm = 0)))

\* the part of C28 that holds: a sell is executed only on a tick on which the
\* condition of its exit holds and brings its count to CONFIRM_TICKS, and a tick on
\* which neither condition holds resets the take-profit count
C28_ExitAfterCountedTicks ==
    (BooksDue /\ cfg.mode = "certainty") =>
       \A winner \in (IF SettlementDue(Cur) THEN Winners ELSE {"none"}) :
       \A t \in (IF NeedsTokens(Cur) THEN Asked(TokenAnswers)
                 ELSE {CHOOSE x \in TokenAnswers : x.tok = "fail"}) :
       \A fetch \in Fetches :
          Bind(refreshOrderbooks(maybeSettlePaperPositions(Cur, winner), t, fetch), LAMBDA r :
             (r.run /\ ExitsEvaluated(r.S)) =>
                Bind(CertTicked(r.S), LAMBDA S1 :
                   \A e \in OrderEnvs(winner, t, fetch) :
                      Bind(booksLoop(Cur, winner, t, fetch, e), LAMBDA S2 :
                         /\ ExitExecuted(S1, S2) =>
                               \/ /\ checkTakeProfit(S1, S1.certainty.open)
                                  /\ S1.certainty.tpConfirm + 1 >= CONFIRM_TICKS
                               \/ /\ ~checkTakeProfit(S1, S1.certainty.open)
                                  /\ checkStopLoss(S1, S1.certainty.open)
                                  /\ S1.certainty.stopConfirm + 1 >= CONFIRM_TICKS
                         /\ (~checkTakeProfit(S1, S1.certainty.open)
                               /\ ~checkStopLoss(S1, S1.certainty.open))
                               => S2.certainty.tpConfirm = 0)))

\* a stop-loss count is carried by an open position
C28_StopCountSeen == BooksDue /\ certainty.open # null /\ certainty.stopConfirm > 0

\* the stop-loss branch left no mark on the tick from S1 to S2: its count was not
\* raised and no stop-loss sell was booked
StopLossNotRun(S1, S2) ==
    /\ S2.certainty.stopConfirm \in {S1.certainty.stopConfirm, 0}
    /\ S2.certainty.intervalState.lastExitType # "stop-loss"
    /\ S2.exch.actualExitPrice = S1.exch.actualExitPrice
    /\ \A i \in DOMAIN S2.certainty.trades : S2.certainty.trades[i].status # "STOPPED"
                                               \/ S1.certainty.trades[i].status = "STOPPED"

\* C29: certainty checks take-profit before stop-loss: on every tick on which the
\* exits of the open position are evaluated and the take-profit condition holds
\* (price inside the take-profit zone), the stop-loss branch is not evaluated and no
\* stop-loss sell is executed.
C29_TakeProfitBeforeStopLoss ==
    (BooksDue /\ cfg.mode = "certainty") =>
       \A winner \in (IF SettlementDue(Cur) THEN Winners ELSE {"none"}) :
       \A t \in (IF NeedsTokens(Cur) THEN Asked(TokenAnswers)
                 ELSE {CHOOSE x \in TokenAnswers : x.tok = "fail"}) :
       \A fetch \in Fetches :
          Bind(refreshOrderbooks(maybeSettlePaperPositions(Cur, winner), t, fetch), LAMBDA r :
             (r.run /\ ExitsEvaluated(r.S) /\ checkTakeProfit(CertTicked(r.S), r.S.certainty.open)) =>
                \A e \in OrderEnvs(winner, t, fetch) :
                   StopLossNotRun(r.S, booksLoop(Cur, winner, t, fetch, e)))

\* the take-profit condition held on a tick of a position that carries a stop-loss count
C29_TakeProfitTickSeen ==
    certainty.open # null /\ certainty.tpConfirm > 0 /\ certainty.stopConfirm > 0

\* the size of the bids priced within the buffer below the stop-loss price
RECURSIVE BufferSize(_, _)
BufferSize(bids, i) ==
    IF i > Len(bids) THEN 0
    ELSE (IF /\ bids[i].price <= STOP_LOSS_PRICE + PRICE_EPS
             /\ bids[i].price >= (STOP_LOSS_PRICE - STOP_LOSS_BUFFER) - PRICE_EPS
          THEN bids[i].size ELSE 0)
         + BufferSize(bids, i + 1)

\* on this tick the stop-loss of the open position of S1 is confirmed and out of cooldown
StopLossConfirmed(S1) ==
    /\ ~checkTakeProfit(S1, S1.certainty.open)
    /\ checkStopLoss(S1, S1.certainty.open)
    /\ S1.certainty.stopConfirm + 1 >= CONFIRM_TICKS
    /\ cooldownOk(S1)

\* the tick from S1 to S2 sold the position by stop-loss at prices within the buffer
StopLossSold(S1, S2) ==
    /\ S2.certainty.open = null
    /\ S2.certainty.intervalState.lastExitType = "stop-loss"
    /\ RatLeq(Rat(STOP_LOSS_PRICE - STOP_LOSS_BUFFER - PRICE_EPS, 1),
              S2.certainty.intervalState.lastStopLossExitPrice)
    /\ RatLeq(S2.certainty.intervalState.lastStopLossExitPrice, Rat(STOP_LOSS_PRICE + PRICE_EPS, 1))

\* C30: when a certainty stop-loss is confirmed and out of cooldown and the bids
\* priced in [STOP_LOSS_PRICE - STOP_LOSS_BUFFER, STOP_LOSS_PRICE] can together absorb
\* the whole position, the stop-loss sell is executed on that tick (in paper mode, or
\* live when the order is filled) at prices within that range.
C30_StopLossSearchesBuffer ==
    (BooksDue /\ cfg.mode = "certainty") =>
       \A winner \in (IF SettlementDue(Cur) THEN Winners ELSE {"none"}) :
       \A t \in (IF NeedsTokens(Cur) THEN Asked(TokenAnswers)
                 ELSE {CHOOSE x \in TokenAnswers : x.tok = "fail"}) :
       \A fetch \in Fetches :
          Bind(refreshOrderbooks(maybeSettlePaperPositions(Cur, winner), t, fetch), LAMBDA r :
             (/\ r.run /\ ExitsEvaluated(r.S)
              /\ StopLossConfirmed(CertTicked(r.S))
              /\ BufferSize(getBooks(r.S, r.S.certainty.open.side).bids, 1)
                    >= r.S.certainty.open.shares * SizeScale) =>
                \A e \in OrderEnvs(winner, t, fetch) :
                   e.order = "filled" => StopLossSold(r.S, booksLoop(Cur, winner, t, fetch, e)))

\* the size of the bids priced at the best bid within the buffer, or one PRICE_EPS below it
RECURSIVE BestSize(_, _, _)
BestSize(bids, i, bestAvailablePrice) ==
    IF i > Len(bids) THEN 0
    ELSE (IF /\ bids[i].price <= STOP_LOSS_PRICE + PRICE_EPS
             /\ bids[i].price >= bestAvailablePrice - PRICE_EPS
          THEN bids[i].size ELSE 0)
         + BestSize(bids, i + 1, bestAvailablePrice)

\* the part of C30 that holds: the sell is executed when the bids at the best price
\* within the buffer (and those within PRICE_EPS below it) absorb the whole position
C30_StopLossSellsAtBest ==
    (BooksDue /\ cfg.mode = "certainty") =>
       \A winner \in (IF SettlementDue(Cur) THEN Winners ELSE {"none"}) :
       \A t \in (IF NeedsTokens(Cur) THEN Asked(TokenAnswers)
                 ELSE {CHOOSE x \in TokenAnswers : x.tok = "fail"}) :
       \A fetch \in Fetches :
          Bind(refreshOrderbooks(maybeSettlePaperPositions(Cur, winner), t, fetch), LAMBDA r :
             (/\ r.run /\ ExitsEvaluated(r.S)
              /\ StopLossConfirmed(CertTicked(r.S))
              /\ Bind(getBooks(r.S, r.S.certainty.open.side).bids, LAMBDA bids :
                     /\ findBestAvailableSellPrice(bids, STOP_LOSS_PRICE, STOP_LOSS_BUFFER) # 0
                     /\ BestSize(bids, 1, findBestAvailableSellPrice(bids, STOP_LOSS_PRICE,
                                                                     STOP_LOSS_BUFFER))
                           >= r.S.certainty.open.shares * SizeScale)) =>
                \A e \in OrderEnvs(winner, t, fetch) :
                   e.order = "filled" => StopLossSold(r.S, booksLoop(Cur, winner, t, fetch, e)))

\* a stop-loss sold the position
C30_StopLossSoldSeen ==
    certainty.open = null /\ certainty.intervalState.lastExitType = "stop-loss"

(***************************************************************************)
(* Interval scope of the certainty state                                   *)
(***************************************************************************)

\* certainty looks for an entry in S and the market of S is not the one its interval
\* state was last reset for
NewIntervalEntryDecision(S) ==
    /\ S.certainty.open = null
    /\ S.world.marketId # NoId
    /\ S.world.marketId # S.certainty.intervalState.marketId

\* the interval state of S2 carries nothing of an earlier interval; nothing but an
\* entry of this tick has written it
IntervalStateFresh(S2) ==
    /\ S2.certainty.intervalState.marketId = S2.world.marketId
    /\ S2.certainty.intervalState.lastExitType = "none"
    /\ S2.certainty.intervalState.entryCount = (IF S2.certainty.open # null THEN 1 ELSE 0)
    /\ S2.certainty.intervalState.lastStopLossExitPrice = null

\* C31: certainty's sub-state is interval-scoped: on the tick on which certainty
\* first looks for an entry after the market id has changed, the interval state left
\* by the previous interval is reset (last exit type, entry count, recorded stop-loss
\* exit price and the re-entry-required flag) and the required band is the default one.
C31_IntervalStateReset ==
    (BooksDue /\ cfg.mode = "certainty") =>
       \A winner \in (IF SettlementDue(Cur) THEN Winners ELSE {"none"}) :
       \A t \in (IF NeedsTokens(Cur) THEN Asked(TokenAnswers)
                 ELSE {CHOOSE x \in TokenAnswers : x.tok = "fail"}) :
       \A fetch \in Fetches :
          Bind(refreshOrderbooks(maybeSettlePaperPositions(Cur, winner), t, fetch), LAMBDA r :
             (r.run /\ NewIntervalEntryDecision(r.S)) =>
                \A e \in OrderEnvs(winner, t, fetch) :
                   Bind(booksLoop(Cur, winner, t, fetch, e), LAMBDA S2 :
                      /\ IntervalStateFresh(S2)
                      /\ ~S2.certainty.intervalState.requireReentryUntilResolved
                      /\ S2.certainty.requiredEntryRange = DefaultRange))

\* the part of C31 that holds: everything but the re-entry-required flag is reset
C31_IntervalStateResetButFlag ==
    (BooksDue /\ cfg.mode = "certainty") =>
       \A winner \in (IF SettlementDue(Cur) THEN Winners ELSE {"none"}) :
       \A t \in (IF NeedsTokens(Cur) THEN Asked(TokenAnswers)
                 ELSE {CHOOSE x \in TokenAnswers : x.tok = "fail"}) :
       \A fetch \in Fetches :
          Bind(refreshOrderbooks(maybeSettlePaperPositions(Cur, winner), t, fetch), LAMBDA r :
             (r.run /\ NewIntervalEntryDecision(r.S)) =>
                \A e \in OrderEnvs(winner, t, fetch) :
                   Bind(booksLoop(Cur, winner, t, fetch, e), LAMBDA S2 :
                      /\ IntervalStateFresh(S2)
                      /\ S2.certainty.requiredEntryRange = DefaultRange))

\* certainty looks for an entry in a new interval after an earlier one left its mark
C31_NewIntervalSeen ==
    /\ BooksDue /\ certainty.open = null
    /\ certainty.intervalState.marketId # NoId
    /\ world.marketId # certainty.intervalState.marketId
    /\ certainty.intervalState.entryCount > 0

(***************************************************************************)
(* Risk-aware sizing of a lag entry, on bounded inputs                     *)
(***************************************************************************)

\* asks of the favoured side, sizes in size units; the spend budget is
\* min(balance, LAG_MAX_USDC), at least LAG_MIN_USDC
SizePrices == {1, 100, 500, 505}
SizeSizes == {2, 10, 30}
SizeFees == {0, 500}
SizeBudgets == {LAG.MIN_USDC, LAG.MAX_USDC}
SizeProfits == {LAG.TP_MIN_CENTS_X100, 300, LAG.TP_MAX_CENTS_X100}

SizeLevels == [price : SizePrices, size : SizeSizes]
SizeLadders ==
    {l \in UNION {[1..n -> SizeLevels] : n \in 0..MaxLevels} :
        \A i \in 1..(Len(l) - 1) : l[i].price < l[i + 1].price}

SizeInputs ==
    [op : {"size"}, asks : SizeLadders, feeBps : SizeFees, maxUsdc : SizeBudgets,
     profit : SizeProfits]

SizeInit ==
    /\ inp \in SizeInputs
    /\ out = NoOutput
    /\ now = 0 /\ cfg = NoOutput /\ paperBalance = 0 /\ world = NoOutput /\ books = NoOutput
    /\ collateral = NoOutput /\ arb = NoOutput /\ certainty = NoOutput /\ phase = "none" /\ exch = NoOutput
    /\ loops = NoOutput
    /\ underlying = NoOutput /\ lag = NoOutput

\* state.lag as evalLagSignal has it when it comes to the sizing
SizeState ==
    [lag |-> [signal |-> "none", suggestedSide |-> "none", suggestedShares |-> NoNum,
              suggestedLimitPrice |-> NoNum,
              lagContext |-> [spotDeltaUsd |-> 20, sideMarketMove2 |-> 0]]]

\* evalLagSignal from the budget-sized fill to the suggestion
CallLagSized ==
    /\ inp.op = "size" /\ out = NoOutput
    /\ out' = [op |-> inp.op,
               res |-> LagSized(SizeState, "UP", [feeBps |-> inp.feeBps, asks |-> inp.asks],
                                maxSharesForBudget(inp.asks, inp.feeBps, inp.maxUsdc, 1),
                                inp.profit)]
    /\ UNCHANGED <<inp, engineVars>>

SpecSize == SizeInit /\ [][CallLagSized]_vars

\* k whole shares can be swept from the asks for at most the budget, fee included
FillableWithin(asks, k, feeBps, maxUsdc) ==
    Bind(BuySweep(asks, 1, [remaining |-> k * SizeScale, cost |-> 0, maxPrice |-> 0]), LAMBDA st :
        st.remaining = 0 /\ st.cost * (10000 + feeBps) <= maxUsdc \div BpsCostUnit)

\* the largest share count fillable within the spend budget, 0 when there is none
LargestFillable(asks, feeBps, maxUsdc) ==
    CHOOSE k \in 0..(sumSizes(asks) \div SizeScale) :
        /\ k = 0 \/ FillableWithin(asks, k, feeBps, maxUsdc)
        /\ \A j \in (k + 1)..(sumSizes(asks) \div SizeScale) : ~FillableWithin(asks, j, feeBps, maxUsdc)

\* the price the sweep of k shares reaches
SweepPrice(asks, k) ==
    BuySweep(asks, 1, [remaining |-> k * SizeScale, cost |-> 0, maxPrice |-> 0]).maxPrice

\* the loss per share at the stop of an entry at this price, fees on both legs
LossAtStop(price, profit, feeBps) ==
    netLossPerShareAtStopUsdc(price, computeStopPrice01(price, profit), feeBps)

\* k shares lose at most the risk budget at this loss per share
WithinRisk(k, loss) == k * loss.n <= LAG.MAX_RISK_USDC * PriceScale * loss.d

\* C32: every proposed lag entry has an integer share count of at least 1 that is the
\* minimum of the largest count fillable within the spend budget and the floor of the
\* risk budget over the worst-case loss per share at the stop, so that shares times the
\* loss per share at the stop is at most the risk budget; when that minimum is below 1
\* no entry is proposed and nothing but the signal and the favoured side changes.
C32_RiskSizedEntry ==
    out.op = "size" =>
        Bind(LargestFillable(inp.asks, inp.feeBps, inp.maxUsdc), LAMBDA fillable :
        Bind(LossAtStop(SweepPrice(inp.asks, fillable), inp.profit, inp.feeBps), LAMBDA loss0 :
        Bind(out.res.lag.suggestedShares, LAMBDA shares :
            /\ shares # NoNum =>
                  /\ shares >= 1 /\ shares <= fillable
                  /\ WithinRisk(shares, loss0)
                  /\ shares = fillable \/ ~WithinRisk(shares + 1, loss0)
                  /\ out.res.lag.suggestedLimitPrice = SweepPrice(inp.asks, shares)
                  /\ WithinRisk(shares, LossAtStop(out.res.lag.suggestedLimitPrice, inp.profit,
                                                   inp.feeBps))
            /\ (fillable < 1 \/ (loss0.n > 0 /\ ~WithinRisk(1, loss0))) =>
                  out.res = [SizeState EXCEPT !.lag.signal = "LAG", !.lag.suggestedSide = "UP"])))

\* an entry was proposed whose size the risk budget set, below what the spend budget fills
C32_RiskCapBinds ==
    /\ out.op = "size"
    /\ out.res.lag.suggestedShares # NoNum
    /\ out.res.lag.suggestedShares < LargestFillable(inp.asks, inp.feeBps, inp.maxUsdc)

(***************************************************************************)
(* The calibrator of the lag model: cents of market response per dollar    *)
(* of spot move                                                            *)
(***************************************************************************)

\* LAG_CALIBRATE_* in cents per dollar; LAG_MODEL_CENTS_PER_USD is the static fallback
CAL ==
    [MIN_SAMPLES |-> 8, MIN_CENTS_PER_USD |-> Rat(5, 1000), MAX_CENTS_PER_USD |-> Rat(25, 100),
     ALPHA |-> Rat(15, 100), MODEL_CENTS_PER_USD |-> Rat(LAG.MODEL_X100_PER_USD, 100)]

\* the default weight with a threshold of 3 samples, and the default threshold with a
\* weight of 0.5: exact fractions of either stay within the integers
CalConfigs ==
    {[alpha |-> CAL.ALPHA, minSamples |-> 3], [alpha |-> Rat(1, 2), minSamples |-> CAL.MIN_SAMPLES]}

\* what evalLagSignal measures on a tick: the spot move since the baseline in dollars and
\* the move of each side's mid in doubled price units; the market has responded when
\* either mid moved by LAG_MIN_MARKET_MOVE
CalResponses ==
    {r \in [spot : {-20, 0, 5, 20, 120}, up : {-40, 10, 40}, down : {-40, -10, 40}] :
        /\ r.up * r.down < 0
        /\ Abs(r.up) = Abs(r.down)
        /\ Max(Abs(r.up), Abs(r.down)) >= LAG.MIN_MARKET_MOVE2
        /\ Abs(r.spot) = 120 => Abs(r.up) = 10
        /\ Abs(r.spot) = 5 => Abs(r.up) = 40}

NoTick == [spot |-> 0, up |-> 0, down |-> 0]

RatAtMost(a, b) == ~RatLess(b, a)

\* a calibrator that exposes its average from the first sample on
maybeUpdateCalibration_exposeAtOnce(cal, c, spotDeltaUsd, upDelta01, downDelta01) ==
    IF spotDeltaUsd = 0 THEN [cal EXCEPT !.sample = null]
    ELSE Bind(IF spotDeltaUsd > 0 THEN Max(0, upDelta01) ELSE Max(0, downDelta01), LAMBDA response01 :
         IF ~(response01 > 0) THEN [cal EXCEPT !.sample = null]
         ELSE Bind(Reduced(response01, 20 * Abs(spotDeltaUsd)), LAMBDA ratio :
              Bind(IF RatLess(ratio, CAL.MIN_CENTS_PER_USD) THEN CAL.MIN_CENTS_PER_USD
                   ELSE IF RatLess(CAL.MAX_CENTS_PER_USD, ratio) THEN CAL.MAX_CENTS_PER_USD
                   ELSE ratio,
                   LAMBDA bounded :
              Bind(IF RatLess(c.alpha, Rat(1, 100)) THEN Rat(1, 100)
                   ELSE IF RatLess(Rat(75, 100), c.alpha) THEN Rat(75, 100) ELSE c.alpha,
                   LAMBDA a :
              Bind(IF cal.ema = null THEN bounded
                   ELSE RatPlus(RatTimes(RatMinus(Rat(1, 1), a), cal.ema), RatTimes(a, bounded)),
                   LAMBDA ema :
                  [n |-> cal.n + 1,
                   ema |-> Reduced(ema.n, ema.d),
                   model |-> Reduced(ema.n, ema.d),
                   sample |-> bounded])))))

\* maybeUpdateCalibration: cal is [n, ema, model, sample], sample the value folded in by
\* this call or null
maybeUpdateCalibration(cal, c, spotDeltaUsd, upDelta01, downDelta01) ==
    IF spotDeltaUsd = 0 THEN [cal EXCEPT !.sample = null]
    ELSE Bind(IF spotDeltaUsd > 0 THEN Max(0, upDelta01) ELSE Max(0, downDelta01), LAMBDA response01 :
         IF ~(response01 > 0) THEN [cal EXCEPT !.sample = null]
         ELSE Bind(Reduced(response01, 20 * Abs(spotDeltaUsd)), LAMBDA ratio :
              Bind(IF RatLess(ratio, CAL.MIN_CENTS_PER_USD) THEN CAL.MIN_CENTS_PER_USD
                   ELSE IF RatLess(CAL.MAX_CENTS_PER_USD, ratio) THEN CAL.MAX_CENTS_PER_USD
                   ELSE ratio,
                   LAMBDA bounded :
              Bind(IF RatLess(c.alpha, Rat(1, 100)) THEN Rat(1, 100)
                   ELSE IF RatLess(Rat(75, 100), c.alpha) THEN Rat(75, 100) ELSE c.alpha,
                   LAMBDA a :
              Bind(IF cal.ema = null THEN bounded
                   ELSE RatPlus(RatTimes(RatMinus(Rat(1, 1), a), cal.ema), RatTimes(a, bounded)),
                   LAMBDA ema :
                  [n |-> cal.n + 1,
                   ema |-> Reduced(ema.n, ema.d),
                   model |-> IF cal.n + 1 >= c.minSamples THEN Reduced(ema.n, ema.d) ELSE cal.model,
                   sample |-> bounded])))))

\* evalLagSignal's "market has responded" branch, as far as the calibrator goes
MarketResponded(cal, c, r) ==
    maybeUpdateCalibration(cal, c, r.spot, r.up, Max(0, 0 - r.down))

\* getModelCentsPerUsd
getModelCentsPerUsd(cal) ==
    IF cal.model # null /\ cal.model.n > 0 THEN cal.model ELSE CAL.MODEL_CENTS_PER_USD

CalInit ==
    /\ inp \in [op : {"cal"}, c : CalConfigs, r : {NoTick}]
    /\ out = [op |-> "cal", n |-> 0, ema |-> null, model |-> null, sample |-> null]
    /\ now = 0 /\ cfg = NoOutput /\ paperBalance = 0 /\ world = NoOutput /\ books = NoOutput
    /\ collateral = NoOutput /\ arb = NoOutput /\ certainty = NoOutput /\ phase = "none" /\ exch = NoOutput
    /\ loops = NoOutput
    /\ underlying = NoOutput /\ lag = NoOutput

\* a tick on which the market has responded; runs end one sample past the threshold
CalResponse ==
    /\ inp.op = "cal" /\ out.n <= inp.c.minSamples
    /\ \E r \in CalResponses :
          /\ inp' = [inp EXCEPT !.r = r]
          /\ out' = [op |-> "cal"] @@ MarketResponded([n |-> out.n, ema |-> out.ema, model |-> out.model,
                                                       sample |-> out.sample], inp.c, r)
    /\ UNCHANGED engineVars

SpecCal == CalInit /\ [][CalResponse]_vars

\* the rise of the favoured side's mid on the last tick, in doubled price units
FavoredRise(r) == IF r.spot > 0 THEN Max(0, r.up) ELSE IF r.spot < 0 THEN Max(0, r.down) ELSE 0

\* cents per dollar of |spot move|, clamped to [min, max]
ClampedRate(rise2, spot) ==
    Bind(Rat(rise2, 20 * Abs(spot)), LAMBDA ratio :
        IF RatLess(ratio, CAL.MIN_CENTS_PER_USD) THEN CAL.MIN_CENTS_PER_USD
        ELSE IF RatLess(CAL.MAX_CENTS_PER_USD, ratio) THEN CAL.MAX_CENTS_PER_USD
        ELSE ratio)

\* C33: on a response tick the sample folded into the calibrator is the favoured side's
\* response only, the rise of the UP mid for an upward spot move and the rise of the DOWN
\* mid for a downward one, in cents per dollar of |spot move| and clamped to [min, max];
\* every response tick on which the favoured side's mid rose updates the calibrator.
C33_FavoredSideSample ==
    (out.op = "cal" /\ inp.r # NoTick) =>
        IF FavoredRise(inp.r) > 0
        THEN out.sample # null /\ RatEq(out.sample, ClampedRate(FavoredRise(inp.r), inp.r.spot))
        ELSE out.sample = null

\* the same for the upward spot moves alone
C33_UpwardSample ==
    (out.op = "cal" /\ inp.r # NoTick /\ inp.r.spot >= 0) =>
        IF FavoredRise(inp.r) > 0
        THEN out.sample # null /\ RatEq(out.sample, ClampedRate(FavoredRise(inp.r), inp.r.spot))
        ELSE out.sample = null

\* a downward spot move with a rise of the DOWN mid was seen
C33_DownwardResponseSeen ==
    out.op = "cal" /\ inp.r.spot < 0 /\ inp.r.down > 0

\* C34: the calibrated rate is exposed to pricing only once the calibrator has
\* LAG_CALIBRATE_MIN_SAMPLES samples, before that every prediction uses the static
\* fallback rate; an exposed rate lies within [LAG_CALIBRATE_MIN_CENTS_PER_USD,
\* LAG_CALIBRATE_MAX_CENTS_PER_USD]; the sample count never decreases.
C34_CalibratedRateExposure ==
    /\ [](out.op = "cal" =>
            /\ out.model # null => out.n >= inp.c.minSamples
            /\ out.n < inp.c.minSamples => getModelCentsPerUsd(out) = CAL.MODEL_CENTS_PER_USD
            /\ out.model # null =>
                  /\ getModelCentsPerUsd(out) = out.model
                  /\ RatAtMost(CAL.MIN_CENTS_PER_USD, out.model)
                  /\ RatAtMost(out.model, CAL.MAX_CENTS_PER_USD))
    /\ [][out.op = "cal" => out'.n >= out.n]_vars

\* the calibrated rate is exposed at the default threshold, after samples that differ
C34_RateExposed ==
    /\ out.op = "cal" /\ out.model # null
    /\ inp.c.minSamples = CAL.MIN_SAMPLES
    /\ out.n = CAL.MIN_SAMPLES
    /\ out.sample # null /\ ~RatEq(out.sample, out.model)

(***************************************************************************)
(* The in-flight flags and the errors of a loop                            *)
(***************************************************************************)

\* C35: the in-flight flag of every cadence is cleared when its step ends, however it
\* ends, and no error of a step aborts the process or leaves the flag set, so that the
\* next firing of the cadence's timer runs again.
C35_StepEndsClearAndSurvive ==
    /\ \A c \in Cadences : loops.inFlight[c] <=> loops.runs[c] # <<>>
    /\ loops.last.did # "aborted"

\* the flag of a cadence is set exactly while an execution of its loop is in flight
C35_FlagClearedWhenStepEnds ==
    \A c \in Cadences : loops.inFlight[c] <=> loops.runs[c] # <<>>

\* a balance call was rejected, the flag of its cadence is clear and the process is over
C35_BalanceCallRejected ==
    loops.last = Escaped("collateral", "abort") /\ ~loops.inFlight["collateral"]

\* C36: under every interleaving of marketLoop, booksLoop and quotesLoop the UP/DOWN
\* token ids in state, when they are not null, are those of the market whose condition
\* id is in state: a token lookup started for a previous market never installs its
\* token ids after the market has changed.
C36_TokensOfCurrentMarket ==
    (loops.tokens # 0 /\ loops.market # 0) => loops.tokens = loops.market

\* the token ids in state are always those of the market the lookup was made for, and
\* a change of the market clears them in the step that installs the new market
C36_TokensOfAskedMarket ==
    [][/\ loops'.tokens # loops.tokens /\ loops'.tokens # 0 =>
             \E c \in {"market", "books", "quotes"} : \E i \in 1..Len(loops.runs[c]) :
                 loops.runs[c][i].pc = "tokens" /\ loops.runs[c][i].asked = loops'.tokens
       /\ loops'.market # loops.market /\ loops'.market # 0 => loops'.tokens = 0]_vars

(***************************************************************************)
(* The sanity check of refreshOrderbooks                                   *)
(***************************************************************************)

\* answers of the two getOrderBook calls that every mode can get: both outcomes above
\* 0.90, and an outcome nobody offers
UnsaneFetches ==
    {Fetch(Thin(940, 950), Thin(940, 950)),
     Fetch(Book(<<Level(790, 2)>>, <<>>), Thin(240, 250)),
     Fetch(Thin(790, 800), Book(<<Level(240, 2)>>, <<>>))}

\* the lowest ask of a book as the CLOB sent it, 0 when there is none
LowestAsk(book) ==
    IF book.asks = <<>> THEN 0
    ELSE CHOOSE p \in {book.asks[i].price : i \in 1..Len(book.asks)} :
            \A i \in 1..Len(book.asks) : p <= book.asks[i].price

\* both outcomes quote a best ask above 0 and not both above 0.90
Sane(fetch) ==
    /\ fetch.ok
    /\ LowestAsk(fetch.upBook) > 0 /\ LowestAsk(fetch.downBook) > 0
    /\ ~(LowestAsk(fetch.upBook) > 900 /\ LowestAsk(fetch.downBook) > 900)

\* positions, counters, ledgers and balance of the strategies
StrategyState(S) == <<S.arb, S.certainty, S.lag, S.paperBalance, S.collateral>>

\* C37: the strategy's tick, the exit checks of an open position included, runs on a
\* books refresh only if both outcomes quote a best ask above 0 and not both best asks
\* exceed 0.90; on every other refresh the strategy is not invoked and no strategy
\* state (position, counters, ledger, balance) changes.
C37_TickOnlyOnSaneBooks ==
    BooksDue =>
       \A winner \in (IF SettlementDue(Cur) THEN Winners ELSE {"none"}) :
       \A t \in (IF NeedsTokens(Cur) THEN Asked(TokenAnswers)
                 ELSE {CHOOSE x \in TokenAnswers : x.tok = "fail"}) :
       \A fetch \in Fetches \cup UnsaneFetches :
          Bind(maybeSettlePaperPositions(Cur, winner), LAMBDA S0 :
             /\ refreshOrderbooks(S0, t, fetch).run => Sane(fetch)
             /\ ~Sane(fetch) =>
                   \A e \in OrderEnvs(winner, t, fetch) :
                      StrategyState(booksLoop(Cur, winner, t, fetch, e)) = StrategyState(S0))

\* books that fail the sanity check are in state while a position is open and a
\* further refresh is due
C37_UnsaneBooksSeen ==
    /\ BooksDue
    /\ books # null /\ bestAskOf(books.up) > 900 /\ bestAskOf(books.down) > 900
    /\ arb.open # null \/ certainty.open # null \/ lag.open # null

(***************************************************************************)
(* The paper balance                                                       *)
(***************************************************************************)

\* C38: the paper balance is never negative: from a non-negative initial balance, with
\* the gas settings at their default of 0, paperBalance >= 0 after any sequence of
\* paper entries, exits and settlements, because every entry debits at most the
\* balance of the moment.
C38_PaperBalanceNonNegative ==
    cfg.paper => paperBalance >= 0

\* a second paper position is open after the first was sold, with less than the price
\* of a share left
C38_DebitedTwice ==
    /\ cfg.paper /\ certainty.open # null /\ Len(certainty.trades) >= 2
    /\ paperBalance < MoneyScale \div 2

(***************************************************************************)
(* The creation of a lag position, on bounded inputs                       *)
(***************************************************************************)

\* a suggestion that has been confirmed: the limit price (the price the sweep of the
\* suggested shares reaches), the shares, the fee of the token and the profit target
EntryInputs ==
    [op : {"enter"}, limitPrice : {1, 2, 500, 980, 989}, shares : {1, 3}, feeBps : {0, 200},
     profit : {LAG.TP_MIN_CENTS_X100, LAG.TP_MAX_CENTS_X100}, order : OrderOutcomes]

\* state when maybeExecuteLag has counted its confirmation ticks: the market is
\* tracked, its tokens are known and a live account is funded
EntryState ==
    [Cur EXCEPT !.world.marketId = 3, !.world.conditionId = 3,
                !.world.upTokenId = 31, !.world.downTokenId = 32,
                !.collateral = [balanceUsdc |-> LiveFunds, allowanceUsdc |-> LiveFunds]]

\* the favoured side as LagSide reads it: the asks hold the suggested shares at the
\* limit price
EntrySide ==
    [tokenId |-> 31, feeBps |-> inp.feeBps, summary |-> null,
     asks |-> <<Level(inp.limitPrice, inp.shares * SizeScale)>>, bids |-> <<>>]

\* the suggestion of a tick
DrawEntry ==
    /\ inp = NoInput
    /\ inp' \in EntryInputs
    /\ UNCHANGED <<out, engineVars>>

\* maybeExecuteLag from its time guard on: the position it opens, or null
CallLagConfirmed ==
    /\ inp.op = "enter" /\ out = NoOutput
    /\ out' = [op |-> "enter",
               res |-> LagConfirmed(EntryState, "UP", EntrySide, inp.shares, inp.limitPrice,
                                    inp.profit, inp.order).lag.open]
    /\ UNCHANGED <<inp, engineVars>>

SpecEntry == EngineInitOf(Configs("lag")) /\ [][DrawEntry \/ CallLagConfirmed]_vars

\* stopPrice < entryPrice < sellPrice < 0.99 and a whole number of shares, at least 1
PositionBounded(open) ==
    /\ RatLess(open.stopPrice, Rat(open.entryPrice, 1))
    /\ RatLess(Rat(open.entryPrice, 1), open.sellPrice)
    /\ RatLess(open.sellPrice, Rat(990, 1))
    /\ open.shares \in Nat /\ open.shares >= 1

\* C39: for every open lag position, from its creation to its removal,
\* stopPrice < entryPrice < sellPrice < 0.99 and its shares are an integer >= 1.
C39_LagPositionBounded ==
    /\ (out.op = "enter" /\ out.res # null) => PositionBounded(out.res)
    /\ (out.op = "none" /\ lag.open # null) => PositionBounded(lag.open)

\* the same for the positions entered above the lowest price of the grid, 0.001
C39_LagPositionBoundedAboveFloor ==
    /\ (out.op = "enter" /\ out.res # null /\ out.res.entryPrice > 1) => PositionBounded(out.res)
    /\ (out.op = "none" /\ lag.open # null) => PositionBounded(lag.open)

\* a position was opened at the lowest price
C39_OpenedAtFloor ==
    out.op = "enter" /\ out.res # null /\ out.res.entryPrice = 1

(***************************************************************************)
(* Lag entries near the end of the interval                                *)
(***************************************************************************)

\* ms from t to the end of the 15-minute interval t lies in
MsToIntervalEnd(t) == 1000 * (getIntervalStartEpoch(t \div 1000) + INTERVAL_SECONDS) - t

\* C40: no lag entry is executed when 60 seconds or less remain before the end of the
\* current interval, even when a signal suggested on an earlier tick is still pending
\* confirmation.
C40_NoLateLagEntry ==
    (cfg.mode = "lag" /\ lag.open # null) =>
        /\ MsToIntervalEnd(lag.open.openedAt) > 60000
        /\ 1000 * lag.open.endEpochSec - lag.open.openedAt > 60000

\* in the last minute of the interval no position is open and a suggestion of an
\* earlier tick has been counted once
C40_PendingInLastMinute ==
    /\ cfg.mode = "lag" /\ lag.open = null
    /\ MsToIntervalEnd(now) <= 60000
    /\ lag.pending # null /\ lag.pending.hits >= 1
    /\ phase = "books"

====
